---- MODULE Spec2Model ----
(***************************************************************************)
(* Model of the planease-lambda conditions extraction pipeline.            *)
(*                                                                         *)
(* Text is modelled as a sequence of lexemes.  A lexeme is either the      *)
(* whitespace lexeme " " (one whitespace character), a punctuation         *)
(* lexeme, a word, or one of the literals the parsers' regular             *)
(* expressions look for ("Timing:", "PROOF OF FULFILMENT", ...).  Regular  *)
(* expressions are computed on lexeme sequences the way Python's re        *)
(* module computes them on characters: leftmost match, greedy              *)
(* quantifiers with backtracking, \b between a word and a non-word         *)
(* character.                                                              *)
(***************************************************************************)
EXTENDS Integers, Sequences, FiniteSets, TLC

(***************************************************************************)
(* Bounds of the model.                                                    *)
(***************************************************************************)
MaxBolds == 4
MaxLines == 4
MaxDescLen == 4
MaxNumberLen == 3
MaxRows == 3
MaxCoverLines == 3
MaxReplay == 3       \* bold runs or lines of a document that is parsed twice

---------------------------------------------------------------------------
(***************************************************************************)
(* State.  A behaviour runs one component on one input; the variables of   *)
(* the other components keep their initial values.                         *)
(***************************************************************************)
VARIABLE adapter   \* the adapter or component this behaviour runs

\* The walk of the BCC condition builder (bcc_parse._parse_conditions).
VARIABLES
  bcc_pc,                 \* "walk" while bold runs are read, then "done"
  walked,                 \* the bold runs read so far, in document order
  nodes,                  \* the condition dicts, in order of creation
  sections,               \* sections: [title, conditions (indices of nodes)]
  current_section_title,
  current_conditions,     \* indices of nodes
  condition_index,        \* base number -> index of the parent dict
  total_conditions

bcc_vars ==
  <<bcc_pc, walked, nodes, sections, current_section_title,
    current_conditions, condition_index, total_conditions>>

\* The walk of the Logan condition builder (logan_parse._parse_conditions).
VARIABLES
  logan_pc,          \* "outer": outer loop, "cont": continuation loop, "done"
  lines,             \* the lines read so far (lines[:i])
  logan_nodes,       \* the condition dicts, in order of creation
  logan_sections,    \* sections: [title, conditions (indices of nodes)]
  current_section,   \* index into logan_sections, 0 for None
  cond_index,        \* number -> index of the dict
  c,                 \* index of the dict the continuation loop extends
  unread             \* the lines after the one the loop stopped at

logan_vars ==
  <<logan_pc, lines, logan_nodes, logan_sections, current_section,
    cond_index, c, unread>>

\* One table row put through the BCC obligation refiner.
VARIABLES
  ref_pc,          \* "row": the row is about to be read, then "done"
  ref_cell0,       \* text of cells[0] once its first <b> is removed
  ref_cell1,       \* text of cells[1]
  ref_condition    \* the condition dict

ref_vars == <<ref_pc, ref_cell0, ref_cell1, ref_condition>>

\* One row of the BCC documents table.
VARIABLES
  doc_pc,       \* "row": the row is about to be read, then "done"
  doc_cell,     \* text of cells[1] of the row
  doc_entry     \* the entry appended to docs

doc_vars == <<doc_pc, doc_cell, doc_entry>>

\* The header fields of one document.
VARIABLES
  det_pc,        \* "parse": the document is about to be read, then "done"
  det_marker,    \* BCC: the document holds the "APPLICATION DETAILS" marker
  det_table,     \* BCC: the table that follows the marker
  det_lines,     \* Logan: the normalised lines
  det_result     \* the part of the returned dict that holds the header fields

det_vars == <<det_pc, det_marker, det_table, det_lines, det_result>>

\* A second invocation of a condition builder on the input of the first.
VARIABLES
  rerun,          \* "no": one invocation; "pending": the first of two;
                  \* "running": the second of two
  replay,         \* the input of the first invocation, given again
  first_output    \* what the first invocation returned

run_vars == <<rerun, replay, first_output>>

\* One invocation of lambda_handler (lambda_function.py).
VARIABLES
  http_pc,     \* "request", "s3", "parser", "ddb", then "returned" or "raised"
  event,       \* the event the handler was invoked with
  calls,       \* the collaborators invoked so far, in order
  parsed,      \* what parser_fn returned
  response     \* what the handler returned

http_vars == <<http_pc, event, calls, parsed, response>>

\* One call of the Logan line normaliser (logan_parse._normalise_lines).
VARIABLES
  norm_pc,     \* "call": about to run, then "returned"
  norm_in,     \* the lines given
  norm_out     \* the lines returned

norm_vars == <<norm_pc, norm_in, norm_out>>

\* One call of a council scraper (council-lookup/details).
VARIABLES
  scr_pc,           \* "call", the request about to be made, then "returned"
  scr_council,      \* the scraper called: "BCC", "LOGAN" or "REDLANDS"
  application_id,   \* the argument
  requests,         \* the HTTP requests made so far, in order
  scr_locals,       \* Logan: the local variables between requests
  scr_result        \* the dict returned

scr_vars ==
  <<scr_pc, scr_council, application_id, requests, scr_locals, scr_result>>

\* One invocation of the council-lookup lambda_handler.
VARIABLES
  look_pc,         \* "request", "scraper", "write", then "returned" or "raised"
  look_event,      \* the event the handler was invoked with
  look_calls,      \* the collaborators invoked so far, with their outcomes
  look_result,     \* what the scraper returned
  look_response    \* what the handler returned

look_vars == <<look_pc, look_event, look_calls, look_result, look_response>>

vars ==
  <<adapter, bcc_vars, logan_vars, ref_vars, doc_vars, det_vars, run_vars,
    http_vars, norm_vars, scr_vars, look_vars>>

---------------------------------------------------------------------------
(***************************************************************************)
(* Lexemes and character classes.                                          *)
(***************************************************************************)
WS == " "

\* Lexemes whose first character is not a word character [A-Za-z0-9_].
NonWordStart == {" ", ".", ")", "(a)", "(b)", "(A)", "(B)", "|", ":"}

\* Lexemes whose last character is not a word character.
NonWordEnd == {" ", ".", ")", "(a)", "(b)", "(A)", "(B)", "|", ":",
               "Timing:", "TIMING:", "timing:"}

WordStart(tok) == tok \notin NonWordStart
WordEnd(tok) == tok \notin NonWordEnd

\* str.lower() on one lexeme.
LowerTok(tok) ==
  CASE tok = "Timing:" -> "timing:"
    [] tok = "TIMING:" -> "timing:"
    [] tok = "PROOF OF FULFILMENT" -> "proof of fulfilment"
    [] tok = "Proof of Fulfilment" -> "proof of fulfilment"
    [] tok = "As" -> "as"
    [] tok = "AS" -> "as"
    [] tok = "INDICATED" -> "indicated"
    [] tok = "Indicated" -> "indicated"
    [] tok = "(A)" -> "(a)"
    [] tok = "(B)" -> "(b)"
    [] tok = "FURTHER ADVICE" -> "further advice"
    [] tok = "Further Advice" -> "further advice"
    [] tok = "Rev" -> "rev"
    [] tok = "REV" -> "rev"
    [] tok = "Issue" -> "issue"
    [] tok = "CO" -> "co"
    [] tok = "Permit Reference Number/s:" -> "permit reference number/s:"
    [] tok = "PERMIT REFERENCE NUMBER/S:" -> "permit reference number/s:"
    [] tok = "Permit Reference" -> "permit reference"
    [] tok = "Street Address" -> "street address"
    [] tok = "STREET ADDRESS" -> "street address"
    [] tok = "Real Property Description" -> "real property description"
    [] tok = "TYPE & DESCRIPTION" -> "type & description"
    [] tok = "Type & Description" -> "type & description"
    [] tok = "APPLICATION NUMBER" -> "application number"
    [] tok = "Document Number" -> "document number"
    [] tok = "APPLICANT" -> "applicant"
    [] tok = "Officer Name" -> "officer name"
    [] tok = "Contact Number" -> "contact number"
    [] OTHER -> tok

Lower(s) == [k \in 1..Len(s) |-> LowerTok(s[k])]

RECURSIVE StripLeft(_)
StripLeft(s) ==
  IF s = <<>> THEN s
  ELSE IF Head(s) = WS THEN StripLeft(Tail(s)) ELSE s

StripRight(s) ==
  IF s # <<>> /\ s[Len(s)] = WS THEN SubSeq(s, 1, Len(s) - 1) ELSE s

RECURSIVE Collapse(_)
Collapse(s) ==
  IF Len(s) <= 1 THEN s
  ELSE IF s[1] = WS /\ s[2] = WS THEN Collapse(Tail(s))
       ELSE <<s[1]>> \o Collapse(Tail(s))

\* _clean: re.sub(r"\s+", " ", (text or "").strip())
Clean(s) == StripRight(Collapse(StripLeft(s)))

\* The least element of a non-empty set of integers.
Min(S) == CHOOSE k \in S : \A j \in S : k <= j

\* The greatest element of a non-empty set of integers.
Max(S) == CHOOSE k \in S : \A j \in S : k >= j

---------------------------------------------------------------------------
(***************************************************************************)
(* BCC adapter (bcc_parse.py): obligation refiner.                         *)
(***************************************************************************)

\* material = None
NoMaterial ==
  [present |-> FALSE, required |-> FALSE, description |-> <<>>, timing |-> <<>>]

\* re.search(r"\bTiming:\s*(.+)$", text, re.I | re.S) can start at lexeme k:
\* a word boundary before it and at least one character after it.
TimingAt(text, k) ==
  /\ LowerTok(text[k]) = "timing:"
  /\ (k = 1 \/ ~WordEnd(text[k - 1]))
  /\ k < Len(text)

\* _extract_inline_timing: (clean_text_without_inline_timing, inline_timing)
_extract_inline_timing(text) ==
  LET hits == {k \in 1..Len(text) : TimingAt(text, k)} IN
  IF text = <<>> \/ hits = {} THEN [text |-> text, timing |-> <<>>]
  ELSE LET k == Min(hits) IN
       [text |-> Clean(SubSeq(text, 1, k - 1)),
        timing |-> Clean(SubSeq(text, k + 1, Len(text)))]

\* re.search(r"\bPROOF OF FULFILMENT\b\s*(.+)$", text, re.I | re.S) can start
\* at lexeme k: word boundaries on both sides and at least one character after.
ProofAt(text, k) ==
  /\ LowerTok(text[k]) = "proof of fulfilment"
  /\ (k = 1 \/ ~WordEnd(text[k - 1]))
  /\ k < Len(text)
  /\ ~WordStart(text[k + 1])

\* Mutant: the proof block is recorded but left in the description.
ExtractProofKeepsBlock(text) ==
  LET hits == {k \in 1..Len(text) : ProofAt(text, k)} IN
  IF text = <<>> \/ hits = {} THEN [text |-> text, material |-> NoMaterial]
  ELSE LET k == Min(hits)
           r == _extract_inline_timing(Clean(SubSeq(text, k + 1, Len(text))))
       IN [text |-> text,
           material |-> [present |-> TRUE, required |-> TRUE,
                         description |-> r.text, timing |-> r.timing]]

\* _extract_proof_of_fulfilment: (clean_desc, material or None)
_extract_proof_of_fulfilment(text) ==
  LET hits == {k \in 1..Len(text) : ProofAt(text, k)} IN
  IF text = <<>> \/ hits = {} THEN [text |-> text, material |-> NoMaterial]
  ELSE LET k == Min(hits)
           proof_block == Clean(SubSeq(text, k + 1, Len(text)))
           clean_desc == Clean(SubSeq(text, 1, k - 1))
           r == _extract_inline_timing(proof_block)
       IN [text |-> clean_desc,
           material |-> [present |-> TRUE, required |-> TRUE,
                         description |-> r.text, timing |-> r.timing]]

\* timing_col.lower() in ("as indicated", "")
IsPlaceholder(timing_col) ==
  Lower(timing_col) \in {<<"as", " ", "indicated">>, <<>>}

\* Mutant: an inline phrase always overrides the timing column.
ResolveTimingInlineFirst(timing_col, inline_timing) ==
  IF inline_timing # <<>>
  THEN [timing |-> inline_timing, timingSource |-> "inline"]
  ELSE [timing |-> timing_col, timingSource |-> "column"]

\* bcc_parse.py lines 355-359: timing and timing_source of a condition.
ResolveTiming(timing_col, inline_timing) ==
  IF inline_timing # <<>> /\ IsPlaceholder(timing_col)
  THEN [timing |-> inline_timing, timingSource |-> "inline"]
  ELSE [timing |-> timing_col, timingSource |-> "column"]

\* _extract_desc_excluding_header_bold: the cell's text without its first <b>.
\* A cell is modelled by the text that remains once the first <b> is removed.
_extract_desc_excluding_header_bold(desc_cell) == Clean(desc_cell)

\* parentNumber of a condition that has none (the key is absent).
NoParent == <<"<absent>">>

\* bcc_parse.py lines 346-371: the condition built from a matched row.
BccCondition(number, title, cell0, cell1) ==
  LET raw_desc == _extract_desc_excluding_header_bold(cell0)
      timing_col == Clean(cell1)
      p == _extract_proof_of_fulfilment(raw_desc)
      t == _extract_inline_timing(p.text)
      r == ResolveTiming(timing_col, t.timing)
  IN [number |-> number,
      title |-> title,
      description |-> t.text,
      timing |-> r.timing,
      timingSource |-> r.timingSource,
      timingColumn |-> timing_col,
      timingInline |-> t.timing,
      material |-> p.material,
      children |-> <<>>,
      parentNumber |-> NoParent]

---------------------------------------------------------------------------
(***************************************************************************)
(* BCC adapter: the walk over bold runs (_parse_conditions).               *)
(***************************************************************************)
DigitToks == {"1", "2", "7", "8"}
SuffixToks == {"(a)", "(b)", "(A)", "(B)"}

\* Length of the run of digits the text starts with.
DigitRun(text) ==
  Max({d \in 0..Len(text) : \A j \in 1..d : text[j] \in DigitToks})

\* First position at or after p that holds no whitespace (Len + 1 if none).
SkipWS(text, p) ==
  Min({q \in p..(Len(text) + 1) : q > Len(text) \/ text[q] # WS})

\* The ways r"^(\d+)(\([a-z]\))?\s*\)?\s*(.+)$" (re.I) can match: d digits,
\* the suffix group taken or not, the ")" taken or not, and then at least
\* one character left for (.+).
CondCandidates(text) ==
  LET run == DigitRun(text) IN
  {cand \in [d : 1..run, suf : BOOLEAN, par : BOOLEAN] :
     /\ cand.suf => (cand.d < Len(text) /\ text[cand.d + 1] \in SuffixToks)
     /\ LET p == cand.d + (IF cand.suf THEN 1 ELSE 0)
            q == SkipWS(text, p + 1)
        IN /\ cand.par => (q <= Len(text) /\ text[q] = ")")
           /\ (IF cand.par THEN q ELSE p) < Len(text)}

\* The order in which the backtracking matcher tries them: greedy first.
CondRank(run, cand) ==
  (run - cand.d) * 4 + (IF cand.suf THEN 0 ELSE 2) + (IF cand.par THEN 0 ELSE 1)

\* cond_m and the groups read from it (bcc_parse.py lines 330-335).
CondMatch(text) ==
  LET run == DigitRun(text)
      cs == CondCandidates(text)
  IN IF cs = {}
     THEN [matched |-> FALSE, base_num |-> <<>>, suffix |-> <<>>, title |-> <<>>]
     ELSE LET first == Min({CondRank(run, x) : x \in cs})
              cand == CHOOSE x \in cs : CondRank(run, x) = first
              p == cand.d + (IF cand.suf THEN 1 ELSE 0)
              e == IF cand.par THEN SkipWS(text, p + 1) ELSE p
          IN [matched |-> TRUE,
              base_num |-> SubSeq(text, 1, cand.d),
              suffix |-> IF cand.suf THEN <<LowerTok(text[cand.d + 1])>> ELSE <<>>,
              title |-> Clean(SubSeq(text, e + 1, Len(text)))]

(***************************************************************************)
(* The bold runs of a document.  A bold run carries its text, whether it   *)
(* lies in a table row ("none": no <tr> parent, "one": a row with fewer    *)
(* than two <td>, "two": a row with at least two), the row's first two     *)
(* cells, and whether the next table's text mentions "timing".             *)
(***************************************************************************)
CondTexts ==
  { <<"8", ")", " ", "Trees">>,
    <<"8", "(a)", " ", "Arborist">>,
    <<"8", "(B)", "(a)", " ", " ", "Fencing">>,
    <<"7", "(a)", " ", "Access">> }

\* The first two cells of the row a sample condition header sits in.
SampleCells(text) ==
  IF text[1] = "7"
  THEN [cell0 |-> <<"x", " ">>, cell1 |-> <<>>]
  ELSE [cell0 |-> <<"x", " ", "Timing:", " ", "y">>,
        cell1 |-> <<"As", " ", "indicated">>]

NoCells == [cell0 |-> <<>>, cell1 |-> <<>>]

BoldRuns ==
  {[text |-> t, row |-> "two", cells |-> SampleCells(t),
    timingTable |-> FALSE] : t \in CondTexts}
  \cup
  { [text |-> <<"8", ")", " ", "Trees">>, row |-> "none", cells |-> NoCells,
     timingTable |-> FALSE],
    [text |-> <<"8", "(a)", " ", "Arborist">>, row |-> "one",
     cells |-> NoCells, timingTable |-> FALSE],
    [text |-> <<"Landscaping">>, row |-> "none", cells |-> NoCells,
     timingTable |-> TRUE],
    [text |-> <<"Engineering", " ">>, row |-> "two", cells |-> NoCells,
     timingTable |-> TRUE],
    [text |-> <<"Landscaping">>, row |-> "none", cells |-> NoCells,
     timingTable |-> FALSE],
    [text |-> <<" ">>, row |-> "none", cells |-> NoCells,
     timingTable |-> FALSE] }

BccInit ==
  /\ bcc_pc = "walk"
  /\ walked = <<>>
  /\ nodes = <<>>
  /\ sections = <<>>
  /\ current_section_title = <<"General">>
  /\ current_conditions = <<>>
  /\ condition_index = <<>>
  /\ total_conditions = 0

\* Mutant: flush() appends the section even when it holds no condition.
FlushAlways(secs, title, conds) ==
  Append(secs, [title |-> title, conditions |-> conds])

\* Mutant: flush() puts the section in front of the earlier ones.
FlushFront(secs, title, conds) ==
  IF conds # <<>>
  THEN <<[title |-> title, conditions |-> conds]>> \o secs
  ELSE secs

\* flush(): sections after the call.
Flush(secs, title, conds) ==
  IF conds # <<>>
  THEN Append(secs, [title |-> title, conditions |-> conds])
  ELSE secs

\* Mutant: the index keeps the first dict bound to a base number.
IndexPutKeepsFirst(index, base_num, n) ==
  [k \in DOMAIN index \cup {base_num} |->
     IF k \in DOMAIN index THEN index[k] ELSE n]

\* condition_index with base_num bound to node n.
IndexPut(index, base_num, n) ==
  [k \in DOMAIN index \cup {base_num} |-> IF k = base_num THEN n ELSE index[k]]

\* Mutant: a subcondition whose parent is unknown is discarded.
AttachDropsOrphan(ns, cur, index, total, condition, base_num, suffix) ==
  LET n == Len(ns) + 1 IN
  IF suffix # <<>>
  THEN IF base_num \in DOMAIN index
       THEN [nodes |-> Append([ns EXCEPT ![index[base_num]].children = Append(@, n)],
                              [condition EXCEPT !.parentNumber = base_num]),
             current_conditions |-> cur, condition_index |-> index,
             total_conditions |-> total + 1]
       ELSE [nodes |-> Append(ns, condition),
             current_conditions |-> cur, condition_index |-> index,
             total_conditions |-> total + 1]
  ELSE [nodes |-> Append(ns, condition),
        current_conditions |-> Append(cur, n),
        condition_index |-> IndexPut(index, base_num, n),
        total_conditions |-> total + 1]

\* Mutant: a subcondition is put in front of its parent's children and is
\* also listed at top level.
AttachFrontAndTop(ns, cur, index, total, condition, base_num, suffix) ==
  LET n == Len(ns) + 1 IN
  IF suffix # <<>>
  THEN IF base_num \in DOMAIN index
       THEN [nodes |-> Append([ns EXCEPT ![index[base_num]].children = <<n>> \o @],
                              [condition EXCEPT !.parentNumber = base_num]),
             current_conditions |-> Append(cur, n), condition_index |-> index,
             total_conditions |-> total + 1]
       ELSE [nodes |-> Append(ns, condition),
             current_conditions |-> Append(cur, n), condition_index |-> index,
             total_conditions |-> total + 1]
  ELSE [nodes |-> Append(ns, condition),
        current_conditions |-> Append(cur, n),
        condition_index |-> IndexPut(index, base_num, n),
        total_conditions |-> total + 1]

\* Mutant: the counter is not advanced for an attached subcondition.
AttachMiscounts(ns, cur, index, total, condition, base_num, suffix) ==
  LET n == Len(ns) + 1 IN
  IF suffix # <<>>
  THEN IF base_num \in DOMAIN index
       THEN [nodes |-> Append([ns EXCEPT ![index[base_num]].children = Append(@, n)],
                              [condition EXCEPT !.parentNumber = base_num]),
             current_conditions |-> cur, condition_index |-> index,
             total_conditions |-> total]
       ELSE [nodes |-> Append(ns, condition),
             current_conditions |-> Append(cur, n), condition_index |-> index,
             total_conditions |-> total + 1]
  ELSE [nodes |-> Append(ns, condition),
        current_conditions |-> Append(cur, n),
        condition_index |-> IndexPut(index, base_num, n),
        total_conditions |-> total + 1]

\* Mutant: an attached subcondition is indexed under its base number too, so
\* the next subcondition of that base hangs below it.
AttachIndexesChild(ns, cur, index, total, condition, base_num, suffix) ==
  LET n == Len(ns) + 1 IN
  IF suffix # <<>>
  THEN IF base_num \in DOMAIN index
       THEN [nodes |-> Append([ns EXCEPT ![index[base_num]].children = Append(@, n)],
                              [condition EXCEPT !.parentNumber = base_num]),
             current_conditions |-> cur,
             condition_index |-> IndexPut(index, base_num, n),
             total_conditions |-> total + 1]
       ELSE [nodes |-> Append(ns, condition),
             current_conditions |-> Append(cur, n), condition_index |-> index,
             total_conditions |-> total + 1]
  ELSE [nodes |-> Append(ns, condition),
        current_conditions |-> Append(cur, n),
        condition_index |-> IndexPut(index, base_num, n),
        total_conditions |-> total + 1]

\* bcc_parse.py lines 373-386: attach the new condition dict (node n).
Attach(ns, cur, index, total, condition, base_num, suffix) ==
  LET n == Len(ns) + 1 IN
  IF suffix # <<>>
  THEN IF base_num \in DOMAIN index
       THEN [nodes |-> Append([ns EXCEPT ![index[base_num]].children = Append(@, n)],
                              [condition EXCEPT !.parentNumber = base_num]),
             current_conditions |-> cur, condition_index |-> index,
             total_conditions |-> total + 1]
       ELSE [nodes |-> Append(ns, condition),
             current_conditions |-> Append(cur, n), condition_index |-> index,
             total_conditions |-> total + 1]
  ELSE [nodes |-> Append(ns, condition),
        current_conditions |-> Append(cur, n),
        condition_index |-> IndexPut(index, base_num, n),
        total_conditions |-> total + 1]

\* One iteration of "for b in root.find_all_next('b')".
BccBold(b) ==
  /\ adapter = "BCC"
  /\ bcc_pc = "walk"
  /\ Len(walked) < (IF rerun = "no" THEN MaxBolds ELSE MaxReplay)
  /\ rerun = "running" =>
       (Len(walked) < Len(replay) /\ b = replay[Len(walked) + 1])
  /\ walked' = Append(walked, b)
  /\ UNCHANGED <<adapter, bcc_pc, logan_vars, ref_vars, doc_vars, det_vars,
               run_vars, http_vars,
               norm_vars, scr_vars, look_vars>>
  /\ \E text \in {Clean(b.text)} :
     \E cond_m \in {CondMatch(text)} :
       IF text = <<>>
       THEN UNCHANGED <<nodes, sections, current_section_title,
                        current_conditions, condition_index, total_conditions>>
       ELSE IF cond_m.matched
       THEN IF b.row = "none" \/ b.row = "one"
            THEN UNCHANGED <<nodes, sections, current_section_title,
                             current_conditions, condition_index,
                             total_conditions>>
            ELSE \E condition \in {BccCondition(cond_m.base_num \o cond_m.suffix,
                                                cond_m.title, b.cells.cell0,
                                                b.cells.cell1)} :
                 \E a \in {Attach(nodes, current_conditions, condition_index,
                                  total_conditions, condition,
                                  cond_m.base_num, cond_m.suffix)} :
                    /\ nodes' = a.nodes
                    /\ current_conditions' = a.current_conditions
                    /\ condition_index' = a.condition_index
                    /\ total_conditions' = a.total_conditions
                    /\ UNCHANGED <<sections, current_section_title>>
       ELSE IF b.timingTable
       THEN /\ sections' = Flush(sections, current_section_title,
                                 current_conditions)
            /\ current_conditions' = <<>>
            /\ current_section_title' = text
            /\ UNCHANGED <<nodes, condition_index, total_conditions>>
       ELSE UNCHANGED <<nodes, sections, current_section_title,
                        current_conditions, condition_index, total_conditions>>

\* The end of the loop: the last flush() and the return.
BccReturn ==
  /\ adapter = "BCC"
  /\ bcc_pc = "walk"
  /\ rerun = "running" => walked = replay
  /\ bcc_pc' = "done"
  /\ sections' = Flush(sections, current_section_title, current_conditions)
  /\ current_conditions' = <<>>
  /\ UNCHANGED <<adapter, walked, nodes, current_section_title,
                 condition_index, total_conditions>>
  /\ UNCHANGED <<logan_vars, ref_vars, doc_vars, det_vars,
               run_vars, http_vars,
               norm_vars, scr_vars, look_vars>>

BccNext == (\E b \in BoldRuns : BccBold(b)) \/ BccReturn

\* parse_bcc_conditions_html: summary.numberOfConditions
BccNumberOfConditions == total_conditions

\* parse_bcc_conditions_html: conditions.sections and the summary's count.
BccOutput ==
  [sections |-> sections, nodes |-> nodes,
   numberOfConditions |-> BccNumberOfConditions]

\* No invocation has returned yet.
NoOutput == [sections |-> <<>>, nodes |-> <<>>, numberOfConditions |-> -1]

\* Mutant: the counter lives outside the function and keeps its value.
BccLocalsKeepCounter(prev) ==
  [sections |-> <<>>,
   current_section_title |-> <<"General">>,
   current_conditions |-> <<>>,
   condition_index |-> <<>>,
   total_conditions |-> prev.total_conditions]

\* bcc_parse.py lines 308-314: the locals of a call are new objects,
\* whatever the locals of an earlier call (prev) hold.
BccLocals(prev) ==
  [sections |-> <<>>,
   current_section_title |-> <<"General">>,
   current_conditions |-> <<>>,
   condition_index |-> <<>>,
   total_conditions |-> 0]

\* The caller invokes the function again on the same document.
BccInvokeAgain ==
  /\ adapter = "BCC"
  /\ bcc_pc = "done"
  /\ rerun = "pending"
  /\ rerun' = "running"
  /\ replay' = walked
  /\ first_output' = BccOutput
  /\ bcc_pc' = "walk"
  /\ walked' = <<>>
  /\ nodes' = <<>>
  /\ \E fresh \in {BccLocals([sections |-> sections,
                               current_section_title |-> current_section_title,
                               current_conditions |-> current_conditions,
                               condition_index |-> condition_index,
                               total_conditions |-> total_conditions])} :
       /\ sections' = fresh.sections
       /\ current_section_title' = fresh.current_section_title
       /\ current_conditions' = fresh.current_conditions
       /\ condition_index' = fresh.condition_index
       /\ total_conditions' = fresh.total_conditions
  /\ UNCHANGED <<adapter, logan_vars, ref_vars, doc_vars, det_vars, http_vars,
               norm_vars, scr_vars, look_vars>>

---------------------------------------------------------------------------
(***************************************************************************)
(* Logan adapter (logan_parse.py): line patterns.                          *)
(***************************************************************************)
\* Lexemes made only of characters of [A-Z\s&/\-].
UpperToks == {"PROPERTY", "ROADS", "FURTHER ADVICE", "&", "/", "-", " "}

\* Lexemes that start with a capital letter and hold at least two characters
\* of the class above.
UpperWords == {"PROPERTY", "ROADS", "FURTHER ADVICE"}

\* Number of characters of a lexeme.
TokLen(tok) ==
  CASE tok = "<prose of 121 characters>" -> 121
    [] tok = "<name of 61 characters>" -> 61
    [] tok = "PROPERTY" -> 8
    [] tok = "ROADS" -> 5
    [] tok = "FURTHER ADVICE" -> 14
    [] tok = "Note:" -> 5
    [] tok = "Trees" -> 5
    [] tok = "This condition is imposed under" -> 31
    [] tok = "DA" -> 2
    [] tok = "101" -> 3
    [] tok = "Rev" -> 3
    [] tok = "REV" -> 3
    [] tok = "Issue" -> 5
    [] tok = "CO" -> 2
    [] tok = "ACME" -> 4
    [] tok = "Architects" -> 10
    [] OTHER -> 1

RECURSIVE StrLen(_)
StrLen(s) == IF s = <<>> THEN 0 ELSE TokLen(Head(s)) + StrLen(Tail(s))

\* End of the longest prefix \d+(\.\d+)* of the line from position p (p - 1
\* if the line does not continue with a digit there).
RECURSIVE DottedEnd(_, _)
DottedEnd(line, p) ==
  LET ds == {e \in p..Len(line) : \A j \in p..e : line[j] \in DigitToks} IN
  IF ds = {} THEN p - 1
  ELSE LET e == Max(ds) IN
       IF e + 2 <= Len(line) /\ line[e + 1] = "." /\ line[e + 2] \in DigitToks
       THEN DottedEnd(line, e + 2)
       ELSE e

\* "^(\d+(?:\.\d+)+)\." : the number and the position of the final dot.
CondNumber(line) ==
  LET e == DottedEnd(line, 1) IN
  IF /\ e >= 3
     /\ \E j \in 1..e : line[j] = "."
     /\ e < Len(line)
     /\ line[e + 1] = "."
  THEN [matched |-> TRUE, num |-> SubSeq(line, 1, e), dot |-> e + 1]
  ELSE [matched |-> FALSE, num |-> <<>>, dot |-> 0]

\* COND_INLINE_RE = r"^(\d+(?:\.\d+)+)\.\s+(.*)$"
COND_INLINE_RE(line) ==
  LET m == CondNumber(line) IN
  IF m.matched /\ m.dot < Len(line) /\ line[m.dot + 1] = WS
  THEN [matched |-> TRUE, num |-> m.num,
        desc |-> SubSeq(line, SkipWS(line, m.dot + 1), Len(line))]
  ELSE [matched |-> FALSE, num |-> <<>>, desc |-> <<>>]

\* COND_NUM_ONLY_RE = r"^(\d+(?:\.\d+)+)\.\s*$"
COND_NUM_ONLY_RE(line) ==
  LET m == CondNumber(line) IN
  IF m.matched /\ SkipWS(line, m.dot + 1) > Len(line)
  THEN [matched |-> TRUE, num |-> m.num]
  ELSE [matched |-> FALSE, num |-> <<>>]

\* SECTION_LINE_RE = r"^(\d+)\.\s+([A-Z][A-Z\s&/\-]+)\s*$"
SECTION_LINE_RE(line) ==
  LET ds == {e \in 1..Len(line) : \A j \in 1..e : line[j] \in DigitToks}
      e == IF ds = {} THEN 0 ELSE Max(ds)
      t == SkipWS(line, e + 2)
  IN IF /\ e >= 1
        /\ e + 2 <= Len(line)
        /\ line[e + 1] = "."
        /\ line[e + 2] = WS
        /\ t <= Len(line)
        /\ line[t] \in UpperWords
        /\ \A j \in t..Len(line) : line[j] \in UpperToks
     THEN [matched |-> TRUE, num |-> SubSeq(line, 1, e),
           title |-> SubSeq(line, t, Len(line))]
     ELSE [matched |-> FALSE, num |-> <<>>, title |-> <<>>]

\* FURTHER_ADVICE_TO_APPLICANT_RE.match(line) or FURTHER_ADVICE_RE.match(line):
\* the second pattern, r"^FURTHER ADVICE\b" (re.I), matches whenever the first
\* does.
FURTHER_ADVICE_RE(line) ==
  /\ line # <<>>
  /\ LowerTok(line[1]) = "further advice"
  /\ (Len(line) = 1 \/ ~WordStart(line[2]))

\* NOTE_START_RE =
\*   r"^(This condition is imposed under|Further Advice:|Advice Note:|Note:)\b"
\* (re.I).  After an alternative that ends in ":" the \b asks for a word
\* character to follow; after "under" it asks for none.
NOTE_START_RE(line) ==
  /\ line # <<>>
  /\ \/ /\ line[1] = "This condition is imposed under"
        /\ (Len(line) = 1 \/ ~WordStart(line[2]))
     \/ /\ line[1] \in {"Note:", "Advice Note:"}
        /\ Len(line) >= 2
        /\ WordStart(line[2])
     \/ /\ LowerTok(line[1]) = "further advice"
        /\ Len(line) >= 3
        /\ line[2] = ":"
        /\ WordStart(line[3])

\* _safe_join(a, b)
_safe_join(a, b) ==
  LET ca == Clean(a)
      cb == Clean(b)
  IN IF ca = <<>> THEN cb
     ELSE IF cb = <<>> THEN ca
     ELSE Clean(ca \o <<WS>> \o cb)

\* _new_condition(num, title, desc)
_new_condition(num, title, desc) ==
  [number |-> Clean(num),
   title |-> Clean(title),
   description |-> Clean(desc),
   timing |-> <<>>,
   timingSource |-> "",
   timingColumn |-> <<>>,
   timingInline |-> <<>>,
   material |-> NoMaterial,
   children |-> <<>>,
   parentNumber |-> NoParent]

\* _prev_topic_title(lines, idx): idx - 1 lines precede the marker.
RECURSIVE _prev_topic_title(_, _)
_prev_topic_title(ls, idx) ==
  LET j == idx - 1 IN
  IF j < 1 THEN <<>>
  ELSE LET t == Clean(ls[j]) IN
       IF \/ t = <<>>
          \/ SECTION_LINE_RE(t).matched
          \/ COND_INLINE_RE(t).matched
          \/ COND_NUM_ONLY_RE(t).matched
          \/ NOTE_START_RE(t)
          \/ t[1] \in DigitToks
          \/ (StrLen(t) > 120 /\ t[Len(t)] \in {".", ";"})
       THEN _prev_topic_title(ls, j)
       ELSE t

(***************************************************************************)
(* Logan adapter: the walk over normalised lines (_parse_conditions).      *)
(***************************************************************************)
LoganLines ==
  { <<" ">>,
    <<"2", ".", " ", "PROPERTY">>,
    <<"2", ".", "1", ".", " ", "x">>,
    <<"2", ".", "1", ".", "1", ".", " ", " ", "y", " ", "Timing:", " ", "z">>,
    <<"2", ".", "1", ".">>,
    <<"7", ".", "1", ".", "2", ".">>,
    <<"FURTHER ADVICE">>,
    <<"Trees">>,
    <<"Note:", " ", "x">>,
    <<"<prose of 121 characters>", ".">> }

\* The sequences of at most n sample lines.
LinesUpTo(n) == UNION {[1..m -> LoganLines] : m \in 0..n}

LoganInit ==
  /\ logan_pc = "outer"
  /\ lines = <<>>
  /\ logan_nodes = <<>>
  /\ logan_sections = <<>>
  /\ current_section = 0
  /\ cond_index = <<>>
  /\ c = 0
  /\ unread = <<>>

\* ".".join(num.split(".")[:-1])
ParentNumber(num) ==
  LET dots == {k \in 1..Len(num) : num[k] = "."} IN
  IF dots = {} THEN <<>> ELSE SubSeq(num, 1, Max(dots) - 1)

\* ensure_section(title): the sections after the call; the new section is
\* the last one.
ensure_section(secs, title) ==
  Append(secs, [title |-> Clean(title), conditions |-> <<>>])

\* Mutant: a condition whose parent is not indexed is not attached.
AttachConditionDropsOrphan(ns, secs, cur, index, n) ==
  LET num == ns[n].number
      parent == ParentNumber(num)
  IN IF (\E k \in 1..Len(num) : num[k] = ".") /\ parent \in DOMAIN index
     THEN [nodes |-> [ns EXCEPT ![index[parent]].children = Append(@, n)],
           sections |-> secs, current_section |-> cur]
     ELSE [nodes |-> ns, sections |-> secs, current_section |-> cur]

\* Mutant: a condition appended to its parent's children is also listed in
\* the current section.
AttachConditionAlsoTop(ns, secs, cur, index, n) ==
  LET num == ns[n].number
      parent == ParentNumber(num)
      secs1 == IF cur = 0 THEN ensure_section(secs, <<"UNSORTED">>) ELSE secs
      cur1 == IF cur = 0 THEN Len(secs1) ELSE cur
  IN IF (\E k \in 1..Len(num) : num[k] = ".") /\ parent \in DOMAIN index
     THEN [nodes |-> [ns EXCEPT ![index[parent]].children = Append(@, n)],
           sections |-> [secs1 EXCEPT ![cur1].conditions = Append(@, n)],
           current_section |-> cur1]
     ELSE [nodes |-> ns,
           sections |-> [secs1 EXCEPT ![cur1].conditions = Append(@, n)],
           current_section |-> cur1]

\* attach_condition(c) for the dict at index n (logan_parse.py 438-447).
attach_condition(ns, secs, cur, index, n) ==
  LET num == ns[n].number
      parent == ParentNumber(num)
  IN IF (\E k \in 1..Len(num) : num[k] = ".") /\ parent \in DOMAIN index
     THEN [nodes |-> [ns EXCEPT ![index[parent]].children = Append(@, n)],
           sections |-> secs, current_section |-> cur]
     ELSE LET secs1 == IF cur = 0 THEN ensure_section(secs, <<"UNSORTED">>)
                       ELSE secs
              cur1 == IF cur = 0 THEN Len(secs1) ELSE cur
          IN [nodes |-> ns,
              sections |-> [secs1 EXCEPT ![cur1].conditions = Append(@, n)],
              current_section |-> cur1]

\* A line at which the continuation loop stops.
IsMarker(line) ==
  \/ SECTION_LINE_RE(line).matched
  \/ COND_INLINE_RE(line).matched
  \/ COND_NUM_ONLY_RE(line).matched

\* Mutant: a leading UNSORTED section is dropped whenever a real section
\* exists, whether or not it holds conditions.
DropLeadingUnsorted(secs) ==
  IF /\ secs # <<>>
     /\ secs[1].title = <<"UNSORTED">>
     /\ \E k \in 1..Len(secs) : secs[k].title # <<"UNSORTED">>
  THEN Tail(secs)
  ELSE secs

\* logan_parse.py 508-512: drop an empty leading UNSORTED section.
DropEmptyUnsorted(secs) ==
  IF /\ secs # <<>>
     /\ secs[1].title = <<"UNSORTED">>
     /\ \E k \in 1..Len(secs) : secs[k].title # <<"UNSORTED">>
     /\ secs[1].conditions = <<>>
  THEN Tail(secs)
  ELSE secs

\* A new condition numbered num (lines 467-473 and 488-493).
LoganStartCondition(num, desc) ==
  LET title == _prev_topic_title(lines, Len(lines) + 1)
      n == Len(logan_nodes) + 1
      ns == Append(logan_nodes, _new_condition(num, title, desc))
      index == [k \in DOMAIN cond_index \cup {num} |->
                  IF k = num THEN n ELSE cond_index[k]]
      a == attach_condition(ns, logan_sections, current_section, index, n)
  IN /\ logan_nodes' = a.nodes
     /\ logan_sections' = a.sections
     /\ current_section' = a.current_section
     /\ cond_index' = index
     /\ c' = n
     /\ logan_pc' = "cont"
     /\ UNCHANGED unread

\* One pass of the outer loop's body on a non-blank line (lines 456-506).
LoganOuter(line) ==
  IF FURTHER_ADVICE_RE(line)
  THEN /\ logan_pc' = "done"
       /\ logan_sections' = DropEmptyUnsorted(logan_sections)
       /\ unread' \in
            (IF rerun = "running"
             THEN {SubSeq(replay, Len(lines) + 2, Len(replay))}
             ELSE LinesUpTo((IF rerun = "no" THEN MaxLines ELSE MaxReplay)
                              - Len(lines) - 1))
       /\ UNCHANGED <<logan_nodes, current_section, cond_index, c>>
  ELSE IF SECTION_LINE_RE(line).matched
  THEN LET ms == SECTION_LINE_RE(line) IN
       /\ logan_sections' =
            ensure_section(logan_sections, ms.num \o <<".", WS>> \o ms.title)
       /\ current_section' = Len(logan_sections) + 1
       /\ logan_pc' = "outer"
       /\ UNCHANGED <<logan_nodes, cond_index, c, unread>>
  ELSE IF COND_INLINE_RE(line).matched
  THEN LoganStartCondition(COND_INLINE_RE(line).num, COND_INLINE_RE(line).desc)
  ELSE IF COND_NUM_ONLY_RE(line).matched
  THEN LoganStartCondition(COND_NUM_ONLY_RE(line).num, <<>>)
  ELSE /\ logan_pc' = "outer"
       /\ UNCHANGED <<logan_nodes, logan_sections, current_section,
                      cond_index, c, unread>>

\* The next line is read, by the outer loop or by the continuation loop of
\* the condition being built.
LoganLine(l) ==
  /\ adapter = "LOGAN"
  /\ logan_pc \in {"outer", "cont"}
  /\ Len(lines) < (IF rerun = "no" THEN MaxLines ELSE MaxReplay)
  /\ rerun = "running" =>
       (Len(lines) < Len(replay) /\ l = replay[Len(lines) + 1])
  /\ lines' = Append(lines, l)
  /\ UNCHANGED <<adapter, bcc_vars, ref_vars, doc_vars, det_vars,
               run_vars, http_vars,
               norm_vars, scr_vars, look_vars>>
  /\ \E line \in {Clean(l)} :
     IF line = <<>>
     THEN UNCHANGED <<logan_pc, logan_nodes, logan_sections, current_section,
                      cond_index, c, unread>>
     ELSE IF logan_pc = "cont" /\ ~IsMarker(line)
     THEN /\ logan_nodes' =
               [logan_nodes EXCEPT
                  ![c].description = _safe_join(@, line)]
          /\ UNCHANGED <<logan_pc, logan_sections, current_section,
                         cond_index, c, unread>>
     ELSE LoganOuter(line)

\* The end of the lines: the loops end and the sections are returned.
LoganReturn ==
  /\ adapter = "LOGAN"
  /\ logan_pc \in {"outer", "cont"}
  /\ rerun = "running" => lines = replay
  /\ logan_pc' = "done"
  /\ logan_sections' = DropEmptyUnsorted(logan_sections)
  /\ UNCHANGED <<adapter, lines, logan_nodes, current_section, cond_index, c,
                 unread>>
  /\ UNCHANGED <<bcc_vars, ref_vars, doc_vars, det_vars,
               run_vars, http_vars,
               norm_vars, scr_vars, look_vars>>

LoganNext == (\E l \in LoganLines : LoganLine(l)) \/ LoganReturn

\* _count_conditions(sections): walk(c) summed over every section's list.
_count_conditions(secs, ns) ==
  LET RECURSIVE walk(_)
      RECURSIVE walkAll(_)
      walk(n) == 1 + walkAll(ns[n].children)
      walkAll(q) == IF q = <<>> THEN 0 ELSE walk(Head(q)) + walkAll(Tail(q))
      RECURSIVE total(_)
      total(q) == IF q = <<>> THEN 0
                  ELSE walkAll(Head(q).conditions) + total(Tail(q))
  IN total(secs)

\* parse_logan_conditions_pdf: summary.numberOfConditions
LoganNumberOfConditions == _count_conditions(logan_sections, logan_nodes)

\* parse_logan_conditions_pdf: conditions.sections and the summary's count.
LoganOutput ==
  [sections |-> logan_sections, nodes |-> logan_nodes,
   numberOfConditions |-> LoganNumberOfConditions]

\* logan_parse.py lines 429-431: the locals of a call are new objects,
\* whatever the locals of an earlier call (prev) hold.
LoganLocals(prev) ==
  [sections |-> <<>>, current_section |-> 0, cond_index |-> <<>>]

\* The caller invokes the function again on the same lines.
LoganInvokeAgain ==
  /\ adapter = "LOGAN"
  /\ logan_pc = "done"
  /\ rerun = "pending"
  /\ rerun' = "running"
  /\ replay' = lines \o unread
  /\ first_output' = LoganOutput
  /\ logan_pc' = "outer"
  /\ lines' = <<>>
  /\ unread' = <<>>
  /\ logan_nodes' = <<>>
  /\ c' = 0
  /\ \E fresh \in {LoganLocals([sections |-> logan_sections,
                                 current_section |-> current_section,
                                 cond_index |-> cond_index])} :
       /\ logan_sections' = fresh.sections
       /\ current_section' = fresh.current_section
       /\ cond_index' = fresh.cond_index
  /\ UNCHANGED <<adapter, bcc_vars, ref_vars, doc_vars, det_vars, http_vars,
               norm_vars, scr_vars, look_vars>>

---------------------------------------------------------------------------
(***************************************************************************)
(* BCC adapter: one table row put through the obligation refiner           *)
(* (bcc_parse.py lines 346-371).                                           *)
(***************************************************************************)
\* The lexemes the description cell of a row is written with.
DescToks == {"x", " ", "Timing:", "TIMING:", "PROOF OF FULFILMENT"}

\* The texts of at most n lexemes.
DescTexts(n) == UNION {[1..m -> DescToks] : m \in 0..n}

\* What a description cell may end with: nothing, an inline timing phrase,
\* a proof-of-fulfilment block with a timing phrase of its own, one without.
Trailers ==
  { <<>>,
    <<" ", "Timing:", " ", "y">>,
    <<" ", "PROOF OF FULFILMENT", " ", "z", " ", "Timing:", " ", "w">>,
    <<" ", "Proof of Fulfilment", " ", "z">> }

\* The description cells: a text of at most n lexemes and a trailer.
DescCells(n) == {h \o t : h \in DescTexts(n), t \in Trailers}

\* The timing cell of a row: empty, the placeholder in two spellings, a value.
TimingCols ==
  { <<>>,
    <<"As", " ", "indicated">>,
    <<"AS", " ", " ", "INDICATED">>,
    <<"y">> }

\* No condition dict has been built.
NoCondition == [number |-> <<>>]

RefIdle ==
  /\ ref_pc = "idle"
  /\ ref_cell0 = <<>>
  /\ ref_cell1 = <<>>
  /\ ref_condition = NoCondition

RefInit ==
  /\ ref_pc = "row"
  /\ ref_cell0 \in DescCells(MaxDescLen)
  /\ ref_cell1 \in TimingCols
  /\ ref_condition = NoCondition

\* The condition dict of the row headed "8) Trees" is built.
Refine ==
  /\ adapter = "REFINER"
  /\ ref_pc = "row"
  /\ ref_pc' = "done"
  /\ ref_condition' = BccCondition(<<"8">>, <<"Trees">>, ref_cell0, ref_cell1)
  /\ UNCHANGED <<ref_cell0, ref_cell1>>
  /\ UNCHANGED <<adapter, bcc_vars, logan_vars, doc_vars, det_vars,
               run_vars, http_vars,
               norm_vars, scr_vars, look_vars>>

---------------------------------------------------------------------------
(***************************************************************************)
(* BCC adapter: the plan-number field of a row of the documents table      *)
(* (bcc_parse.py lines 173-191 and 211-227).                               *)
(***************************************************************************)
\* Lexemes made only of characters of [A-Za-z0-9].
DocAlnum ==
  {"DA", "101", "Rev", "REV", "B", "Issue", "CO", "ACME", "Architects",
   "2", "3", "<name of 61 characters>"}

\* End of the run of [A-Z0-9]+ (re.I) that starts at q; 0 if none starts there.
CodeEnd(s, q) ==
  IF q <= Len(s) /\ s[q] \in DocAlnum
  THEN Max({e \in q..Len(s) : \A j \in q..e : s[j] \in DocAlnum})
  ELSE 0

\* End of the match of
\*   r"\b(Rev\s+[A-Z0-9]+|Issue\s+[A-Z0-9]+|CO\s+Issue\s+[A-Z0-9]+)\b" (re.I)
\* that starts at lexeme k; 0 if none starts there.
RevEndAt(s, k) ==
  IF ~(k = 1 \/ ~WordEnd(s[k - 1])) \/ k >= Len(s) \/ s[k + 1] # WS THEN 0
  ELSE IF LowerTok(s[k]) \in {"rev", "issue"}
  THEN CodeEnd(s, SkipWS(s, k + 1))
  ELSE IF LowerTok(s[k]) = "co"
  THEN LET i == SkipWS(s, k + 1) IN
       IF i < Len(s) /\ LowerTok(s[i]) = "issue" /\ s[i + 1] = WS
       THEN CodeEnd(s, SkipWS(s, i + 1))
       ELSE 0
  ELSE 0

\* The text before the first "|" of s: s.split("|", 1)[0]
BeforeBar(s) ==
  SubSeq(s, 1, Min({k \in 1..Len(s) : s[k] = "|"}) - 1)

\* _extract_revision_and_prepared_by(number_str): (rev, prepared_by)
_extract_revision_and_prepared_by(number_str) ==
  LET s == number_str
      ms == {k \in 1..Len(s) : RevEndAt(s, k) > 0}
      rev == IF ms = {} THEN <<>>
             ELSE Clean(SubSeq(s, Min(ms), RevEndAt(s, Min(ms))))
      left == IF \E k \in 1..Len(s) : s[k] = "|" THEN Clean(BeforeBar(s))
              ELSE <<>>
      prepared_by == IF left # <<>> /\ StrLen(left) <= 60 THEN left ELSE <<>>
  IN [revision |-> rev, preparedBy |-> prepared_by]

\* The lexemes the start of a plan-number cell is written with.
NumberToks == {"Rev", " ", "B", "|", "ACME"}

\* How a plan-number cell may start: any text of at most n lexemes, or one of
\* the sample references.
NumberHeads(n) ==
  UNION {[1..m -> NumberToks] : m \in 0..n}
  \cup
  { <<"DA", "-", "101">>,
    <<"DA", "-", "101", " ", "Rev", " ", "B">>,
    <<"DA", "-", "101", " ", "Issue", " ", " ", "2">>,
    <<"DA", "-", "101", " ", "CO", " ", "Issue", " ", "3">>,
    <<"<name of 61 characters>", " ", "REV", " ", "B">> }

\* How it may end: nothing, or a separator and a name.
NumberTails ==
  { <<>>,
    <<" ", "|", " ", "ACME", " ", "Architects">>,
    <<"|", "ACME">> }

NumberCells(n) == {h \o t : h \in NumberHeads(n), t \in NumberTails}

\* No entry has been added to docs.
NoEntry == [number |-> <<"<none>">>]

DocIdle ==
  /\ doc_pc = "idle"
  /\ doc_cell = <<>>
  /\ doc_entry = NoEntry

DocInit ==
  /\ doc_pc = "row"
  /\ doc_cell \in NumberCells(MaxNumberLen)
  /\ doc_entry = NoEntry

\* One row of the documents table (lines 211-227): number, revision and
\* preparedBy of the entry.
DocRow ==
  /\ adapter = "DOCUMENTS"
  /\ doc_pc = "row"
  /\ doc_pc' = "done"
  /\ \E number \in {Clean(doc_cell)} :
     \E r \in {_extract_revision_and_prepared_by(number)} :
       doc_entry' = [number |-> number,
                     revision |-> r.revision,
                     preparedBy |-> r.preparedBy]
  /\ UNCHANGED doc_cell
  /\ UNCHANGED <<adapter, bcc_vars, logan_vars, ref_vars, det_vars,
               run_vars, http_vars,
               norm_vars, scr_vars, look_vars>>

---------------------------------------------------------------------------
(***************************************************************************)
(* Header fields: applicationDetails of the BCC adapter                    *)
(* (bcc_parse.py lines 22-83).                                             *)
(***************************************************************************)
\* {}: the dict without keys.
EmptyDict == [k \in {} |-> <<>>]

\* label.rstrip(":")
RECURSIVE RStripColon(_)
RStripColon(s) ==
  IF s # <<>> /\ s[Len(s)] = ":" THEN RStripColon(SubSeq(s, 1, Len(s) - 1))
  ELSE s

\* out[label] = value
DictPut(d, key, value) ==
  [k \in DOMAIN d \cup {key} |-> IF k = key THEN value ELSE d[k]]

\* The table the marker is followed by is absent (find_next returns None).
NoTable == <<[tds |-> 0, label |-> <<"<no table>">>, value |-> <<>>]>>

\* _parse_2col_table(table): label -> value
RECURSIVE _parse_2col_table(_)
_parse_2col_table(table) ==
  IF table = NoTable \/ table = <<>> THEN EmptyDict
  ELSE LET out == _parse_2col_table(SubSeq(table, 1, Len(table) - 1))
           tr == table[Len(table)]
           label == RStripColon(Clean(tr.label))
           value == Clean(tr.value)
       IN IF tr.tds < 2 \/ label = <<>> THEN out
          ELSE DictPut(out, label, value)

\* get(*keys): the first non-empty value among the keys, else "".
RECURSIVE get(_, _)
get(raw, keys) ==
  IF keys = <<>> THEN <<>>
  ELSE IF Head(keys) \in DOMAIN raw /\ raw[Head(keys)] # <<>>
       THEN raw[Head(keys)]
       ELSE get(raw, Tail(keys))

\* "permit reference" in council_ref.lower()
MentionsPermitReference(s) ==
  \E k \in 1..Len(s) :
    LowerTok(s[k]) \in {"permit reference number/s:", "permit reference"}

\* The places where r"^(.*?)\s*Permit Reference Number/s:\s*(.+)$" (re.I) can
\* find its literal with something after it.
InlinePermitAt(s) ==
  {k \in 1..(Len(s) - 1) : LowerTok(s[k]) = "permit reference number/s:"}

\* _parse_application_details(soup), for a document with or without the
\* "APPLICATION DETAILS" marker and the table that follows it.
_parse_application_details(marker, table) ==
  IF ~marker THEN EmptyDict
  ELSE LET raw == _parse_2col_table(table)
           council_ref == get(raw, << <<"Council File Reference">> >>)
           permit_refs == get(raw, << <<"Permit Reference Number/s">>,
                                      <<"Permit Reference Numbers">> >>)
           quirk == /\ council_ref # <<>>
                    /\ MentionsPermitReference(council_ref)
                    /\ permit_refs = <<>>
                    /\ InlinePermitAt(council_ref) # {}
           at == Min(InlinePermitAt(council_ref))
       IN [addressOfSite |-> get(raw, << <<"Address of Site">> >>),
           realPropertyDescriptionOfSite |->
             get(raw, << <<"Real Property Description of Site">> >>),
           aspectsOfDevelopmentAndTypeOfApproval |->
             get(raw, << <<"Aspects of development and type of approval">> >>),
           councilFileReference |->
             IF quirk THEN Clean(SubSeq(council_ref, 1, at - 1))
             ELSE council_ref,
           permitReferenceNumbers |->
             IF quirk THEN Clean(SubSeq(council_ref, at + 1, Len(council_ref)))
             ELSE permit_refs,
           packageStatus |-> get(raw, << <<"Package Status">> >>),
           packageGenerated |-> get(raw, << <<"Package Generated">> >>)]

---------------------------------------------------------------------------
(***************************************************************************)
(* Header fields: applicationDetails of the Logan adapter                  *)
(* (logan_parse.py lines 25-67 and 174-248).                               *)
(***************************************************************************)
\* scan_limit = 120
scan_limit == 120

\* lines[:limit]
FirstLines(ls, limit) == SubSeq(ls, 1, IF Len(ls) < limit THEN Len(ls) ELSE limit)

\* _next_meaningful(lines, start): the first non-blank line from start on.
RECURSIVE _next_meaningful(_, _)
_next_meaningful(ls, start) ==
  IF start > Len(ls) THEN <<>>
  ELSE IF Clean(ls[start]) # <<>> THEN Clean(ls[start])
       ELSE _next_meaningful(ls, start + 1)

\* label_re.match(line) for r"^<label>\s*:?\s*(.*)$" (re.I): the line starts
\* with the label; the value group is what follows it, an optional ":" and
\* whitespace.
LabelMatch(line, label) ==
  IF line # <<>> /\ LowerTok(line[1]) = LowerTok(label)
  THEN LET p == SkipWS(line, 2)
           q == IF p <= Len(line) /\ line[p] = ":" THEN SkipWS(line, p + 1)
                ELSE p
       IN [matched |-> TRUE, label |-> <<line[1]>>,
           value |-> SubSeq(line, q, Len(line))]
  ELSE [matched |-> FALSE, label |-> <<>>, value |-> <<>>]

\* line.split(":", 1)[1] for a line that holds a ":".
AfterColon(line) ==
  SubSeq(line, Min({k \in 1..Len(line) : line[k] = ":"}) + 1, Len(line))

HasColon(line) == \E k \in 1..Len(line) : line[k] = ":"

\* Mutant: the text after the ":" is preferred to the capture group.
RECURSIVE FindFromColonFirst(_, _, _, _, _)
FindFromColonFirst(ls, label, group1, limit, i) ==
  IF i > Len(ls) \/ i > limit THEN <<>>
  ELSE LET line == Clean(ls[i])
           m == LabelMatch(line, label)
       IN IF line = <<>> \/ ~m.matched
          THEN FindFromColonFirst(ls, label, group1, limit, i + 1)
          ELSE LET val == Clean(CASE group1 = "label" -> m.label
                                  [] group1 = "value" -> m.value
                                  [] OTHER -> <<>>)
               IN IF HasColon(line) /\ Clean(AfterColon(line)) # <<>>
                  THEN Clean(AfterColon(line))
                  ELSE IF val # <<>> THEN val
                  ELSE Clean(_next_meaningful(ls, i + 1))

\* _find_value_after_label(lines, label_re, scan_limit) from line i on.
\* group1 says what the pattern's group 1 captures: "value" (the text after
\* the label), "label" (the label itself: the pattern of "TYPE &
\* DESCRIPTION") or "none" (a pattern without groups: m.lastindex is None).
RECURSIVE FindFrom(_, _, _, _, _)
FindFrom(ls, label, group1, limit, i) ==
  IF i > Len(ls) \/ i > limit THEN <<>>
  ELSE LET line == Clean(ls[i])
           m == LabelMatch(line, label)
       IN IF line = <<>> \/ ~m.matched
          THEN FindFrom(ls, label, group1, limit, i + 1)
          ELSE LET val == Clean(CASE group1 = "label" -> m.label
                                  [] group1 = "value" -> m.value
                                  [] OTHER -> <<>>)
               IN IF val # <<>> THEN val
                  ELSE IF HasColon(line) /\ Clean(AfterColon(line)) # <<>>
                  THEN Clean(AfterColon(line))
                  ELSE Clean(_next_meaningful(ls, i + 1))

_find_value_after_label(ls, label, group1, limit) ==
  FindFrom(ls, label, group1, limit, 1)

\* logan_parse.py lines 207-213: the value of "TYPE & DESCRIPTION" when the
\* lookup returned the label itself.
TypeFallback(ls, type_desc) ==
  LET head == FirstLines(ls, scan_limit)
      hits == {i \in 1..Len(head) :
                 \E k \in 1..Len(head[i]) :
                   LowerTok(head[i][k]) = "type & description"}
  IN IF type_desc # <<>> /\ LowerTok(type_desc[1]) = "type & description"
        /\ hits # {} /\ HasColon(head[Min(hits)])
     THEN Clean(AfterColon(head[Min(hits)]))
     ELSE type_desc

\* _extract_logan_application_details(lines): applicationDetails
_extract_logan_application_details(ls) ==
  LET applicant == _find_value_after_label(ls, "APPLICANT", "value", scan_limit)
      app_no == _find_value_after_label(ls, "APPLICATION NUMBER", "value", scan_limit)
      type_desc ==
        TypeFallback(ls, _find_value_after_label(ls, "TYPE & DESCRIPTION", "label",
                                                 scan_limit))
      officer_name == _find_value_after_label(ls, "Officer Name", "value", scan_limit)
      contact_number ==
        _find_value_after_label(ls, "Contact Number", "value", scan_limit)
      document_number ==
        _find_value_after_label(ls, "Document Number", "value", scan_limit)
      street_address ==
        _find_value_after_label(ls, "Street Address", "value", scan_limit)
      real_prop ==
        _find_value_after_label(ls, "Real Property Description", "value", scan_limit)
  IN [addressOfSite |-> street_address,
      realPropertyDescriptionOfSite |-> real_prop,
      aspectsOfDevelopmentAndTypeOfApproval |-> type_desc,
      councilFileReference |-> app_no,
      permitReferenceNumbers |-> document_number,
      packageStatus |-> <<>>,
      packageGenerated |-> <<>>,
      applicant |-> applicant,
      officerName |-> officer_name,
      contactNumber |-> contact_number,
      documentNumber |-> document_number]

---------------------------------------------------------------------------
(***************************************************************************)
(* Header fields: the documents given and the applicationDetails returned. *)
(***************************************************************************)
\* Rows of the table after "APPLICATION DETAILS": the number of <td> and the
\* text of the first two.
DetailRows ==
  { [tds |-> 2, label |-> <<"Address of Site", ":">>, value |-> <<"x">>],
    [tds |-> 2, label |-> <<"Council File Reference">>,
     value |-> <<"A1", " ", "Permit Reference Number/s:", " ", "P2">>],
    [tds |-> 2, label |-> <<"Council File Reference">>, value |-> <<"A1">>],
    [tds |-> 2, label |-> <<"Permit Reference Numbers">>, value |-> <<"P9">>],
    [tds |-> 2, label |-> <<"Package Status">>, value |-> <<" ">>],
    [tds |-> 2, label |-> <<" ">>, value |-> <<"x">>],
    [tds |-> 1, label |-> <<"Package Generated">>, value |-> <<>>] }

\* The tables of at most n rows, and the absent table.
DetailTables(n) == {NoTable} \cup UNION {[1..m -> DetailRows] : m \in 0..n}

\* Lines of the cover page of a Logan document.
CoverLines ==
  { <<" ">>,
    <<"Street Address", ":", " ", "x">>,
    <<"STREET ADDRESS", ":">>,
    <<"x">>,
    <<"TYPE & DESCRIPTION", ":", " ", "y">>,
    <<"Type & Description">>,
    <<"APPLICATION NUMBER", " ", "A1">>,
    <<"Document Number", ":">> }

CoverPages(n) == UNION {[1..m -> CoverLines] : m \in 0..n}

\* Nothing has been returned.
NoResult == [council |-> "<none>"]

DetIdle ==
  /\ det_pc = "idle"
  /\ det_marker = FALSE
  /\ det_table = NoTable
  /\ det_lines = <<>>
  /\ det_result = NoResult

DetInit ==
  /\ det_pc = "parse"
  /\ det_result = NoResult
  /\ \/ /\ adapter = "BCC"
        /\ det_marker \in BOOLEAN
        /\ det_table \in DetailTables(MaxRows)
        /\ det_lines = <<>>
     \/ /\ adapter = "LOGAN"
        /\ det_marker = FALSE
        /\ det_table = NoTable
        /\ det_lines \in CoverPages(MaxCoverLines)

\* parse_bcc_conditions_html: council and applicationDetails of the result.
BccDetails ==
  /\ adapter = "BCC"
  /\ det_pc = "parse"
  /\ det_pc' = "done"
  /\ det_result' =
       [council |-> "BCC",
        applicationDetails |-> _parse_application_details(det_marker, det_table)]
  /\ UNCHANGED <<det_marker, det_table, det_lines>>
  /\ UNCHANGED <<adapter, bcc_vars, logan_vars, ref_vars, doc_vars,
               run_vars, http_vars,
               norm_vars, scr_vars, look_vars>>

\* parse_logan_conditions_pdf: council and applicationDetails of the result.
LoganDetails ==
  /\ adapter = "LOGAN"
  /\ det_pc = "parse"
  /\ det_pc' = "done"
  /\ det_result' =
       [council |-> "LOGAN",
        applicationDetails |-> _extract_logan_application_details(det_lines)]
  /\ UNCHANGED <<det_marker, det_table, det_lines>>
  /\ UNCHANGED <<adapter, bcc_vars, logan_vars, ref_vars, doc_vars,
               run_vars, http_vars,
               norm_vars, scr_vars, look_vars>>

---------------------------------------------------------------------------
(***************************************************************************)
(* The handler of the conditions processor (lambda_function.py).           *)
(***************************************************************************)
\* body.get(key) is None: the key is missing or holds null.
Absent == "<absent>"

\* A value that is not a string, such as the number 5.
NotAString == "<number 5>"

\* The texts a request body can hold: one that is not JSON, or the JSON text
\* of a list, a string, a number, null or an object with some of the fields.
BodyTexts ==
  {[syntax |-> "malformed"]}
  \cup {[syntax |-> "json", value |-> [type |-> t]] :
          t \in {"list", "str", "int", "None"}}
  \cup {[syntax |-> "json",
         value |-> [type |-> "dict", sessionId |-> sid, fileKey |-> key,
                    councilCode |-> code]] :
          sid \in {Absent, "", "s1"}, key \in {Absent, "", "k1"},
          code \in {Absent, "", "logan", "BCC", "NSW", NotAString}}

\* The events given to the handler: the HTTP method, and the body as the
\* gateway passes it, as text or base64-encoded with the flag set.
Events ==
  {[method |-> m, isBase64Encoded |-> FALSE, body |-> b] :
     m \in {"OPTIONS", "POST"},
     b \in {[enc |-> "none"]} \cup {[enc |-> "text", text |-> t] : t \in BodyTexts}}
  \cup
  {[method |-> m, isBase64Encoded |-> TRUE, body |-> b] :
     m \in {"OPTIONS", "POST"},
     b \in {[enc |-> "none"], [enc |-> "base64 with incorrect padding"]}
           \cup {[enc |-> "base64", text |-> t] : t \in BodyTexts}}

\* PARSER_ROUTER: the council codes with a parser.
PARSER_ROUTER == {"LOGAN", "BCC", "REDLANDS"}

\* _response(status_code, body); the body is written as the dict that
\* json.dumps serialises.
_response(status_code, body) == [statusCode |-> status_code, body |-> body]

\* lambda_handler, lines 29-66: what the handler does before it reads the
\* file.  "response": it returns; "raise": an exception leaves the handler;
\* "proceed": it goes on to line 68.
Receive(ev) ==
  LET upper(code) == CASE code = "logan" -> "LOGAN" [] OTHER -> code
      \* line 34: event.get("body") or "{}"
      raw_body == IF ev.body.enc = "none"
                  THEN [enc |-> "text",
                        text |-> [syntax |-> "json",
                                  value |-> [type |-> "dict", sessionId |-> Absent,
                                             fileKey |-> Absent,
                                             councilCode |-> Absent]]]
                  ELSE ev.body
      \* lines 35-36: b64decode("{}") is b"", which is not JSON
      decode_raises == ev.isBase64Encoded
                         /\ ev.body.enc = "base64 with incorrect padding"
      text == IF ev.isBase64Encoded /\ ev.body.enc = "none"
              THEN [syntax |-> "malformed"]
              ELSE raw_body.text
  IN IF ev.method = "OPTIONS"
     THEN [kind |-> "response",
           response |-> _response(200, [ok |-> TRUE, message |-> "CORS preflight"])]
     ELSE IF decode_raises THEN [kind |-> "raise", exception |-> "binascii.Error"]
     ELSE IF text.syntax = "malformed"
     THEN [kind |-> "response",
           response |-> _response(400, [ok |-> FALSE, error |-> "INVALID_JSON"])]
     ELSE LET body == text.value IN
          IF body.type # "dict"
          THEN [kind |-> "raise", exception |-> "AttributeError"]
          ELSE IF body.councilCode = NotAString
          THEN [kind |-> "raise", exception |-> "AttributeError"]
          ELSE LET session_id == body.sessionId
                   file_key == body.fileKey
                   council_code == IF body.councilCode = Absent THEN ""
                                   ELSE upper(body.councilCode)
               IN IF session_id \in {Absent, ""} \/ file_key \in {Absent, ""}
                     \/ council_code = ""
                  THEN [kind |-> "response",
                        response |->
                          _response(400,
                            [ok |-> FALSE, error |-> "MISSING_FIELDS",
                             message |->
                               "sessionId, fileKey, councilCode are required"])]
                  ELSE IF council_code \notin PARSER_ROUTER
                  THEN [kind |-> "response",
                        response |->
                          _response(400,
                            [ok |-> FALSE, error |-> "UNSUPPORTED_COUNCIL",
                             message |-> "No parser implemented for <council_code>"])]
                  ELSE [kind |-> "proceed", session_id |-> session_id,
                        file_key |-> file_key, council_code |-> council_code]

\* str(e) of the exception a collaborator raised.
ErrorTexts == {"timed out", "access denied"}

\* What a parser returns.
Packages == {"<package A>", "<package B>"}

NoEvent == [method |-> "<none>"]
NoResponse == [statusCode |-> 0]
NoPackage == "<none>"

HttpIdle ==
  /\ http_pc = "idle"
  /\ event = NoEvent
  /\ calls = <<>>
  /\ parsed = NoPackage
  /\ response = NoResponse

HttpInit ==
  /\ http_pc = "request"
  /\ event \in Events
  /\ calls = <<>>
  /\ parsed = NoPackage
  /\ response = NoResponse

\* Lines 26-66: the request is read and checked.
HandleRequest ==
  /\ adapter = "HANDLER"
  /\ http_pc = "request"
  /\ \E r \in {Receive(event)} :
       /\ http_pc' = CASE r.kind = "response" -> "returned"
                       [] r.kind = "raise" -> "raised"
                       [] OTHER -> "s3"
       /\ response' = IF r.kind = "response" THEN r.response ELSE response
  /\ UNCHANGED <<event, calls, parsed>>
  /\ UNCHANGED <<adapter, bcc_vars, logan_vars, ref_vars, doc_vars, det_vars,
                 run_vars, norm_vars, scr_vars, look_vars>>

\* Mutant: a failed read is answered but the handler goes on to the parser.
ReadFileCarriesOn ==
  /\ adapter = "HANDLER"
  /\ http_pc = "s3"
  /\ calls' = Append(calls, "s3.get_object")
  /\ http_pc' = "parser"
  /\ \/ UNCHANGED response
     \/ \E e \in ErrorTexts :
          response' = _response(500, [ok |-> FALSE, error |-> "S3_READ_ERROR",
                                      message |-> e])
  /\ UNCHANGED <<event, parsed>>
  /\ UNCHANGED <<adapter, bcc_vars, logan_vars, ref_vars, doc_vars, det_vars,
                 run_vars, norm_vars, scr_vars, look_vars>>

\* Lines 68-74: the file is read from the object store, or the read raises.
ReadFile ==
  /\ adapter = "HANDLER"
  /\ http_pc = "s3"
  /\ calls' = Append(calls, "s3.get_object")
  /\ \/ /\ http_pc' = "parser"
        /\ UNCHANGED response
     \/ \E e \in ErrorTexts :
          /\ http_pc' = "returned"
          /\ response' = _response(500, [ok |-> FALSE, error |-> "S3_READ_ERROR",
                                         message |-> e])
  /\ UNCHANGED <<event, parsed>>
  /\ UNCHANGED <<adapter, bcc_vars, logan_vars, ref_vars, doc_vars, det_vars,
                 run_vars, norm_vars, scr_vars, look_vars>>

\* Lines 76-81: the council's parser runs, or raises.
RunParser ==
  /\ adapter = "HANDLER"
  /\ http_pc = "parser"
  /\ calls' = Append(calls, "parser_fn")
  /\ \/ \E package \in Packages :
          /\ http_pc' = "ddb"
          /\ parsed' = package
          /\ UNCHANGED response
     \/ \E e \in ErrorTexts :
          /\ http_pc' = "returned"
          /\ response' = _response(500, [ok |-> FALSE, error |-> "PARSER_ERROR",
                                         message |-> e])
          /\ UNCHANGED parsed
  /\ UNCHANGED event
  /\ UNCHANGED <<adapter, bcc_vars, logan_vars, ref_vars, doc_vars, det_vars,
                 run_vars, norm_vars, scr_vars, look_vars>>

\* Lines 83-110: the session record is written and the package returned, or
\* the write raises.
WriteSession ==
  /\ adapter = "HANDLER"
  /\ http_pc = "ddb"
  /\ calls' = Append(calls, "dynamodb.update_item")
  /\ http_pc' = "returned"
  /\ \E r \in {Receive(event)} :
       \/ response' = _response(200, [ok |-> TRUE, sessionId |-> r.session_id,
                                      councilCode |-> r.council_code,
                                      fileKey |-> r.file_key,
                                      conditions |-> parsed])
       \/ \E e \in ErrorTexts :
            response' = _response(500, [ok |-> FALSE, error |-> "DDB_WRITE_ERROR",
                                        message |-> e])
  /\ UNCHANGED <<event, parsed>>
  /\ UNCHANGED <<adapter, bcc_vars, logan_vars, ref_vars, doc_vars, det_vars,
                 run_vars, norm_vars, scr_vars, look_vars>>

HttpNext == HandleRequest \/ ReadFile \/ RunParser \/ WriteSession

---------------------------------------------------------------------------
(***************************************************************************)
(* Logan adapter: the line normaliser (_normalise_lines).                  *)
(***************************************************************************)
\* SECTION_NUM_ONLY_RE = r"^(\d+)\.\s*$"
SECTION_NUM_ONLY_RE(line) ==
  LET d == DigitRun(line) IN
  IF /\ d >= 1
     /\ d < Len(line)
     /\ line[d + 1] = "."
     /\ SkipWS(line, d + 2) > Len(line)
  THEN [matched |-> TRUE, num |-> SubSeq(line, 1, d)]
  ELSE [matched |-> FALSE, num |-> <<>>]

\* UPPER_TITLE_RE = r"^[A-Z][A-Z\s&/\-]{2,}$"
UPPER_TITLE_RE(line) ==
  /\ line # <<>>
  /\ line[1] \in UpperWords
  /\ \A j \in 1..Len(line) : line[j] \in UpperToks
  /\ StrLen(line) >= 3

\* inline_section = r"(.*?)(\b\d+\.\s+[A-Z][A-Z\s&/\-]+\b)(.*)" matched at
\* the start of the line: the earliest start of group 2 that can match, and
\* for it the longest group 2 that ends at a word boundary.
inline_section(line) ==
  LET \* \b between positions e and e + 1
      Boundary(e) ==
        (e >= 1 /\ WordEnd(line[e])) # (e < Len(line) /\ WordStart(line[e + 1]))
      \* where the digits that start at p end
      RunEnd(p) ==
        Max({e \in p..Len(line) : \A j \in p..e : line[j] \in DigitToks})
      \* where the capitals start, Len + 1 or more if "\.\s+" does not match
      TitleAt(p) ==
        LET e == RunEnd(p) IN
        IF e + 2 <= Len(line) /\ line[e + 1] = "." /\ line[e + 2] = WS
        THEN SkipWS(line, e + 2)
        ELSE Len(line) + 1
      Ends(p) ==
        LET t == TitleAt(p) IN
        IF t > Len(line) \/ line[t] \notin UpperWords THEN {}
        ELSE {e \in t..Len(line) :
                /\ \A j \in t..e : line[j] \in UpperToks
                /\ Boundary(e)}
      starts == {p \in 1..Len(line) :
                   /\ line[p] \in DigitToks
                   /\ Boundary(p - 1)
                   /\ Ends(p) # {}}
  IN IF starts = {}
     THEN [matched |-> FALSE, a |-> <<>>, b |-> <<>>, rest |-> <<>>]
     ELSE LET p == Min(starts)
              e == Max(Ends(p))
          IN [matched |-> TRUE,
              a |-> SubSeq(line, 1, p - 1),
              b |-> SubSeq(line, p, e),
              rest |-> SubSeq(line, e + 1, Len(line))]

\* The loop of _normalise_lines from line i on (lines 118-148): what is
\* appended to out.
RECURSIVE NormaliseFrom(_, _)
NormaliseFrom(ls, i) ==
  IF i > Len(ls) THEN <<>>
  ELSE LET l == Clean(ls[i])
           mnum == SECTION_NUM_ONLY_RE(l)
           nxt == _next_meaningful(ls, i + 1)
           m == inline_section(l)
       IN IF l = <<>> THEN NormaliseFrom(ls, i + 1)
          ELSE IF mnum.matched /\ nxt # <<>> /\ UPPER_TITLE_RE(Clean(nxt))
          THEN <<mnum.num \o <<".", WS>> \o Clean(nxt)>>
                 \o NormaliseFrom(ls, i + 2)
          ELSE IF m.matched /\ SECTION_LINE_RE(Clean(m.b)).matched
          THEN (IF Clean(m.a) # <<>> THEN <<Clean(m.a)>> ELSE <<>>)
                 \o <<Clean(m.b)>>
                 \o (IF Clean(m.rest) # <<>> THEN <<Clean(m.rest)>> ELSE <<>>)
                 \o NormaliseFrom(ls, i + 1)
          ELSE <<l>> \o NormaliseFrom(ls, i + 1)

\* _normalise_lines(lines)
_normalise_lines(ls) == NormaliseFrom(ls, 1)

\* Lines as the text extraction can hand them over: blank, a section number
\* alone, a title in capitals, a section header, a header embedded in other
\* text, and running text with doubled whitespace.
NormLines ==
  { <<" ">>,
    <<"2", ".">>,
    <<"PROPERTY">>,
    <<"2", ".", " ", "PROPERTY">>,
    <<"x", " ", "2", ".", " ", "PROPERTY", " ", "y">>,
    <<"Trees", " ", " ", "x">> }

MaxNormLines == 4

NormIdle ==
  /\ norm_pc = "idle"
  /\ norm_in = <<>>
  /\ norm_out = <<>>

NormInit ==
  /\ norm_pc = "call"
  /\ norm_in \in UNION {[1..k -> NormLines] : k \in 0..MaxNormLines}
  /\ norm_out = <<>>

\* The call: the loop runs to the end of the lines and out is returned.
Normalise ==
  /\ adapter = "NORMALISER"
  /\ norm_pc = "call"
  /\ norm_pc' = "returned"
  /\ norm_out' = _normalise_lines(norm_in)
  /\ UNCHANGED norm_in
  /\ UNCHANGED <<adapter, bcc_vars, logan_vars, ref_vars, doc_vars, det_vars,
                 run_vars, http_vars, scr_vars, look_vars>>

---------------------------------------------------------------------------
(***************************************************************************)
(* council-lookup: the scrapers (details/bcc_scr.py, logan_scr.py,         *)
(* redlands_scr.py).  Every HTTP request is a step whose outcome the       *)
(* upstream server decides: the request raises, the status is not ok, or   *)
(* a body of some kind comes back.                                         *)
(***************************************************************************)
\* Python's None, where a dict is expected and where a string is expected.
NoneDict == [type |-> "None"]
NoneStr == "<None>"

\* The arguments a scraper can be given.
ApplicationIds == {NoneStr, "", "A006738808", NotAString}

\* not application_id
Falsy(id) == id \in {NoneStr, ""}

\* The rows of the "data" array of a Development-i reply: a row with a
\* category, a row without one, and an entry that is not an object.
ApiRows == {"Plans", "<no category>", "<not a dict>"}

MaxApiRows == 2

\* What the body of a Development-i GetResult reply can be.
ApiBodies ==
  {[kind |-> k, rows |-> <<>>] :
     k \in {"invalid json", "json list", "no data array"}}
  \cup {[kind |-> "rows", rows |-> r] :
          r \in UNION {[1..k -> ApiRows] : k \in 0..MaxApiRows}}

\* The failure record every scraper returns.
ScrFailure(error) == [success |-> FALSE, data |-> NoneDict, error |-> error]

\* The "metadata" entry the scrapers build from the documents, which are
\* written by their categories.
ScrMetadata(documents) ==
  [totalDocuments |-> Len(documents),
   scrapedAt |-> "<utcnow>",
   categories |-> {documents[k] : k \in 1..Len(documents)}]

\* The success record (bcc_scr.py 194-198, redlands_scr.py 171-175,
\* logan_scr.py 439-443).
ScrSuccess(data) == [success |-> TRUE, data |-> data, error |-> NoneStr]

\* The data of the Development-i scrapers.
DeviData(id, documents) ==
  [type |-> "dict", applicationId |-> id, documents |-> documents,
   metadata |-> ScrMetadata(documents)]

\* The loop over rows (bcc_scr.py 151-180, redlands_scr.py 105-135): the
\* documents, or the exception the first entry that is not an object raises.
DeviDocuments(rows) ==
  IF \E k \in 1..Len(rows) : rows[k] = "<not a dict>"
  THEN [raised |-> TRUE, documents |-> <<>>]
  ELSE [raised |-> FALSE,
        documents |-> [k \in 1..Len(rows) |->
                         IF rows[k] = "<no category>" THEN "Document"
                         ELSE rows[k]]]

NoLocals == [attempt |-> 0, found |-> FALSE, prop_key |-> FALSE,
             documents |-> <<>>, cat |-> 0]
NoScrResult == [success |-> FALSE, data |-> NoneDict, error |-> "<not returned>"]

ScrIdle ==
  /\ scr_pc = "idle"
  /\ scr_council = "<none>"
  /\ application_id = NoneStr
  /\ requests = <<>>
  /\ scr_locals = NoLocals
  /\ scr_result = NoScrResult

ScrInit ==
  /\ scr_pc = "call"
  /\ scr_council \in {"BCC", "LOGAN", "REDLANDS"}
  /\ application_id \in ApplicationIds
  /\ requests = <<>>
  /\ scr_locals = NoLocals
  /\ scr_result = NoScrResult

\* Mutant: the first request is made outside the try block.
BccScrapeMainUnguarded ==
  /\ adapter = "SCRAPER"
  /\ scr_council = "BCC"
  /\ scr_pc = "call"
  /\ IF Falsy(application_id)
     THEN /\ scr_pc' = "returned"
          /\ scr_result' = ScrFailure("Application ID is required")
          /\ UNCHANGED requests
     ELSE /\ requests' = Append(requests, "GET GetAllDocument")
          /\ \/ /\ scr_pc' = "raised"
                /\ UNCHANGED scr_result
             \/ /\ scr_pc' = "returned"
                /\ scr_result' = ScrFailure("Failed to fetch main page: 503")
             \/ /\ scr_pc' = "api"
                /\ UNCHANGED scr_result
  /\ UNCHANGED <<scr_council, application_id, scr_locals>>
  /\ UNCHANGED <<adapter, bcc_vars, logan_vars, ref_vars, doc_vars, det_vars,
                 run_vars, http_vars, norm_vars, look_vars>>

\* scrape_bcc_documents_json, lines 81-104: the argument is checked and the
\* main page requested.
BccScrapeMain ==
  /\ adapter = "SCRAPER"
  /\ scr_council = "BCC"
  /\ scr_pc = "call"
  /\ IF Falsy(application_id)
     THEN /\ scr_pc' = "returned"
          /\ scr_result' = ScrFailure("Application ID is required")
          /\ UNCHANGED requests
     ELSE /\ requests' = Append(requests, "GET GetAllDocument")
          /\ \/ \E e \in ErrorTexts :
                  /\ scr_pc' = "returned"
                  /\ scr_result' = ScrFailure(e)
             \/ /\ scr_pc' = "returned"
                /\ scr_result' = ScrFailure("Failed to fetch main page: 503")
             \/ /\ scr_pc' = "api"
                /\ UNCHANGED scr_result
  /\ UNCHANGED <<scr_council, application_id, scr_locals>>
  /\ UNCHANGED <<adapter, bcc_vars, logan_vars, ref_vars, doc_vars, det_vars,
                 run_vars, http_vars, norm_vars, look_vars>>

\* scrape_bcc_documents_json, lines 106-205: the document list is requested
\* and the result built.
BccScrapeApi ==
  /\ adapter = "SCRAPER"
  /\ scr_council = "BCC"
  /\ scr_pc = "api"
  /\ requests' = Append(requests, "POST GetResult")
  /\ scr_pc' = "returned"
  /\ \/ \E e \in ErrorTexts : scr_result' = ScrFailure(e)
     \/ scr_result' = ScrFailure("BCC API request failed: 503")
     \/ \E body \in ApiBodies :
          scr_result' =
            CASE body.kind = "invalid json" ->
                   ScrFailure("Invalid JSON returned by BCC API")
              [] body.kind = "json list" ->
                   ScrFailure("'list' object has no attribute 'get'")
              [] body.kind = "no data array" ->
                   ScrFailure("Invalid API response format: missing 'data' array")
              [] OTHER ->
                   IF DeviDocuments(body.rows).raised
                   THEN ScrFailure("'str' object has no attribute 'get'")
                   ELSE ScrSuccess(DeviData(application_id,
                                            DeviDocuments(body.rows).documents))
  /\ UNCHANGED <<scr_council, application_id, scr_locals>>
  /\ UNCHANGED <<adapter, bcc_vars, logan_vars, ref_vars, doc_vars, det_vars,
                 run_vars, http_vars, norm_vars, look_vars>>

\* scrape_redlands_da_json, lines 146-154, and scrape_redlands_documents,
\* lines 56-70: the argument is checked and the main page requested; what
\* scrape_redlands_documents raises is caught at lines 177-182.
RedlandsScrapeMain ==
  /\ adapter = "SCRAPER"
  /\ scr_council = "REDLANDS"
  /\ scr_pc = "call"
  /\ IF Falsy(application_id)
     THEN /\ scr_pc' = "returned"
          /\ scr_result' = ScrFailure("Application ID is required")
          /\ UNCHANGED requests
     ELSE /\ requests' = Append(requests, "GET GetAllDocument")
          /\ \/ \E e \in ErrorTexts :
                  /\ scr_pc' = "returned"
                  /\ scr_result' = ScrFailure(e)
             \/ /\ scr_pc' = "returned"
                /\ scr_result' = ScrFailure("Failed to fetch main page: 503")
             \/ /\ scr_pc' = "api"
                /\ UNCHANGED scr_result
  /\ UNCHANGED <<scr_council, application_id, scr_locals>>
  /\ UNCHANGED <<adapter, bcc_vars, logan_vars, ref_vars, doc_vars, det_vars,
                 run_vars, http_vars, norm_vars, look_vars>>

\* scrape_redlands_documents, lines 72-137, and scrape_redlands_da_json,
\* lines 155-182.
RedlandsScrapeApi ==
  /\ adapter = "SCRAPER"
  /\ scr_council = "REDLANDS"
  /\ scr_pc = "api"
  /\ requests' = Append(requests, "POST GetResult")
  /\ scr_pc' = "returned"
  /\ \/ \E e \in ErrorTexts : scr_result' = ScrFailure(e)
     \/ scr_result' = ScrFailure("Redlands API request failed: 503")
     \/ \E body \in ApiBodies :
          scr_result' =
            CASE body.kind = "invalid json" ->
                   ScrFailure("Invalid JSON returned by Redlands API: ...")
              [] body.kind = "json list" ->
                   ScrFailure("'list' object has no attribute 'get'")
              [] body.kind = "no data array" ->
                   ScrFailure("Invalid API response format: missing 'data' array")
              [] OTHER ->
                   IF DeviDocuments(body.rows).raised
                   THEN ScrFailure("'str' object has no attribute 'get'")
                   ELSE ScrSuccess(DeviData(application_id,
                                            DeviDocuments(body.rows).documents))
  /\ UNCHANGED <<scr_council, application_id, scr_locals>>
  /\ UNCHANGED <<adapter, bcc_vars, logan_vars, ref_vars, doc_vars, det_vars,
                 run_vars, http_vars, norm_vars, look_vars>>

\* The queries lookup_application_details makes at most: two databases, six
\* where clauses each.
ArcgisQueries == 12

\* ascon_categories
ascon_categories ==
  <<"AsConstructedDrainage", "AsConstructedWaterSewer", "AsConstructedRoads">>

\* The data returned by scrape_logan_da_json, lines 424-437.
LoganData(id, locals) ==
  [type |-> "dict", applicationId |-> id,
   details |-> [type |-> "dict", found |-> locals.found],
   documents |-> locals.documents,
   metadata |-> ScrMetadata(locals.documents)]

\* scrape_logan_da_json, lines 333-342, and lookup_application_details,
\* lines 281-306: the argument is checked and the queries prepared; re.sub
\* raises TypeError for an argument that is not a string.
LoganScrapeStart ==
  /\ adapter = "SCRAPER"
  /\ scr_council = "LOGAN"
  /\ scr_pc = "call"
  /\ IF Falsy(application_id)
     THEN /\ scr_pc' = "returned"
          /\ scr_result' = ScrFailure("Application ID is required")
     ELSE IF application_id = NotAString
     THEN /\ scr_pc' = "returned"
          /\ scr_result' = ScrFailure("expected string or bytes-like object")
     ELSE /\ scr_pc' = "arcgis"
          /\ UNCHANGED scr_result
  /\ UNCHANGED <<scr_council, application_id, requests, scr_locals>>
  /\ UNCHANGED <<adapter, bcc_vars, logan_vars, ref_vars, doc_vars, det_vars,
                 run_vars, http_vars, norm_vars, look_vars>>

\* lookup_application_details, lines 308-324: one query.  A request that
\* raises, a status that is not ok, a body that is not the expected JSON or
\* holds no features lead to the next query; features end the lookup.
LoganArcgisQuery ==
  /\ adapter = "SCRAPER"
  /\ scr_council = "LOGAN"
  /\ scr_pc = "arcgis"
  /\ requests' = Append(requests, "GET arcgis query")
  /\ \/ /\ scr_locals' = [scr_locals EXCEPT !.attempt = @ + 1]
        /\ scr_pc' = IF scr_locals.attempt + 1 = ArcgisQueries
                     THEN "docs" ELSE "arcgis"
     \/ \E key \in BOOLEAN :
          /\ scr_locals' = [scr_locals EXCEPT !.found = TRUE, !.prop_key = key]
          /\ scr_pc' = "docs"
  /\ UNCHANGED <<scr_council, application_id, scr_result>>
  /\ UNCHANGED <<adapter, bcc_vars, logan_vars, ref_vars, doc_vars, det_vars,
                 run_vars, http_vars, norm_vars, look_vars>>

\* scrape_logan_da_json, lines 344-390 (and 424-443 when no property key is
\* known): the document listing is requested; a failure of any kind leaves
\* the documents as they are.
LoganScrapeDocs ==
  /\ adapter = "SCRAPER"
  /\ scr_council = "LOGAN"
  /\ scr_pc = "docs"
  /\ requests' = Append(requests, "GET lcc-docs-01")
  /\ \E docs \in {<<>>, <<"Decision Notices">>} :
     \E locals \in {[scr_locals EXCEPT !.documents = @ \o docs]} :
       IF locals.prop_key
       THEN /\ scr_pc' = "ascon"
            /\ scr_locals' = locals
            /\ UNCHANGED scr_result
       ELSE /\ scr_pc' = "returned"
            /\ scr_locals' = locals
            /\ scr_result' = ScrSuccess(LoganData(application_id, locals))
  /\ UNCHANGED <<scr_council, application_id>>
  /\ UNCHANGED <<adapter, bcc_vars, logan_vars, ref_vars, doc_vars, det_vars,
                 run_vars, http_vars, norm_vars, look_vars>>

\* scrape_logan_da_json, lines 393-443: the listing of one as-constructed
\* category is requested; after the last one the result is returned.
LoganScrapeAscon ==
  /\ adapter = "SCRAPER"
  /\ scr_council = "LOGAN"
  /\ scr_pc = "ascon"
  /\ requests' = Append(requests, "GET lcc.docs.01")
  /\ \E docs \in {<<>>, <<"As-Constructed">>} :
     \E locals \in {[scr_locals EXCEPT !.documents = @ \o docs,
                                       !.cat = @ + 1]} :
       /\ scr_locals' = locals
       /\ IF locals.cat = Len(ascon_categories)
          THEN /\ scr_pc' = "returned"
               /\ scr_result' = ScrSuccess(LoganData(application_id, locals))
          ELSE /\ scr_pc' = "ascon"
               /\ UNCHANGED scr_result
  /\ UNCHANGED <<scr_council, application_id>>
  /\ UNCHANGED <<adapter, bcc_vars, logan_vars, ref_vars, doc_vars, det_vars,
                 run_vars, http_vars, norm_vars, look_vars>>

ScrNext ==
  \/ BccScrapeMain \/ BccScrapeApi
  \/ RedlandsScrapeMain \/ RedlandsScrapeApi
  \/ LoganScrapeStart \/ LoganArcgisQuery \/ LoganScrapeDocs \/ LoganScrapeAscon

---------------------------------------------------------------------------
(***************************************************************************)
(* council-lookup: lambda_handler (council-lookup/lambda_function.py).     *)
(***************************************************************************)
\* The JSON values a request can carry: a list, or an object with some of
\* the fields; a session id of blanks, a council code that is a number.
LookBodies ==
  {[type |-> "list"]}
  \cup {[type |-> "dict", councilCode |-> code, daNumber |-> da,
         sessionId |-> sid] :
          code \in {Absent, "bcc", "NSW", NotAString},
          da \in {Absent, "A006738808"},
          sid \in {Absent, "s1", "   "}}

\* The events: with a "body" (absent text, text that is not JSON, or the
\* JSON text of a value) or, on a direct invocation, the object itself;
\* and the INTAKE_TABLE the module was loaded with.
LookEvents ==
  {[wrapper |-> "body", body |-> b, INTAKE_TABLE |-> t] :
     b \in {[syntax |-> "none"], [syntax |-> "malformed"]}
           \cup {[syntax |-> "json", value |-> v] : v \in LookBodies},
     t \in {"project_intake_sessions", ""}}
  \cup
  {[wrapper |-> "direct", body |-> [syntax |-> "json", value |-> v],
    INTAKE_TABLE |-> t] :
     v \in {w \in LookBodies : w.type = "dict"},
     t \in {"project_intake_sessions", ""}}

\* COUNCIL_ROUTER: the council codes with a scraper.
COUNCIL_ROUTER == {"BCC", "LOGAN", "REDLANDS"}

\* http_response(status_code, body_dict); the body is written as the dict
\* that json.dumps serialises.
http_response(status_code, body_dict) ==
  [statusCode |-> status_code, body |-> body_dict]

\* lambda_handler, lines 25-64: what the handler does before it calls the
\* scraper.  "response": it returns; "raise": an exception leaves the
\* handler; "proceed": it goes on to line 66.
LookReceive(ev) ==
  LET upper_strip(s) == CASE s = "bcc" -> "BCC" [] s = "   " -> "" [] OTHER -> s
      field(body, f) == IF body[f] = Absent THEN "" ELSE upper_strip(body[f])
  IN IF ev.body.syntax = "malformed"
     THEN [kind |-> "response",
           response |-> http_response(400, [ok |-> FALSE, error |-> "INVALID_JSON"])]
     ELSE LET body == IF ev.body.syntax = "none"
                      THEN [type |-> "dict", councilCode |-> Absent,
                            daNumber |-> Absent, sessionId |-> Absent]
                      ELSE ev.body.value
          IN IF body.type # "dict"
             THEN [kind |-> "raise", exception |-> "AttributeError"]
             ELSE IF body.councilCode = NotAString
             THEN [kind |-> "raise", exception |-> "AttributeError"]
             ELSE LET council_code == field(body, "councilCode")
                      da_number == field(body, "daNumber")
                      session_id == field(body, "sessionId")
                  IN IF council_code = "" \/ da_number = ""
                     THEN [kind |-> "response",
                           response |->
                             http_response(400,
                               [ok |-> FALSE, error |-> "MISSING_FIELDS",
                                message |-> "councilCode and daNumber are required"])]
                     ELSE IF council_code \notin COUNCIL_ROUTER
                     THEN [kind |-> "response",
                           response |->
                             http_response(400,
                               [ok |-> FALSE, error |-> "UNSUPPORTED_COUNCIL",
                                message |-> "Council '<council_code>' not supported yet"])]
                     ELSE [kind |-> "proceed", council_code |-> council_code,
                           da_number |-> da_number, session_id |-> session_id]

\* What a scraper can hand back: the failure record, the success record
\* with its data (or without), and something that is not a dict.
ScraperResults ==
  {NoneDict}
  \cup {ScrFailure(e) : e \in ErrorTexts}
  \cup {ScrSuccess(d) :
          d \in {NoneDict, DeviData("A006738808", <<>>),
                 DeviData("A006738808", <<"Plans">>)}}

\* project_metadata, lines 91-101.
project_metadata(result, da_number) ==
  IF result.data = NoneDict
  THEN [applicationId |-> da_number, scrapedAt |-> "<utcnow>",
        totalDocuments |-> NoneStr, categories |-> NoneStr,
        raw |-> [type |-> "dict"]]
  ELSE [applicationId |-> result.data.applicationId,
        scrapedAt |-> result.data.metadata.scrapedAt,
        totalDocuments |-> result.data.metadata.totalDocuments,
        categories |-> result.data.metadata.categories,
        raw |-> result.data]

NoLookEvent == [wrapper |-> "<none>"]

LookIdle ==
  /\ look_pc = "idle"
  /\ look_event = NoLookEvent
  /\ look_calls = <<>>
  /\ look_result = NoScrResult
  /\ look_response = NoResponse

LookInit ==
  /\ look_pc = "request"
  /\ look_event \in LookEvents
  /\ look_calls = <<>>
  /\ look_result = NoScrResult
  /\ look_response = NoResponse

\* Lines 25-64: the request is read and checked.
LookRequest ==
  /\ adapter = "LOOKUP"
  /\ look_pc = "request"
  /\ \E r \in {LookReceive(look_event)} :
       /\ look_pc' = CASE r.kind = "response" -> "returned"
                       [] r.kind = "raise" -> "raised"
                       [] OTHER -> "scraper"
       /\ look_response' = IF r.kind = "response" THEN r.response
                           ELSE look_response
  /\ UNCHANGED <<look_event, look_calls, look_result>>
  /\ UNCHANGED <<adapter, bcc_vars, logan_vars, ref_vars, doc_vars, det_vars,
                 run_vars, http_vars, norm_vars, scr_vars>>

\* Lines 66-104: the scraper is called; it raises or returns, and a result
\* that is a success leads to the session write when there is a session id
\* and a table name.
LookScrape ==
  /\ adapter = "LOOKUP"
  /\ look_pc = "scraper"
  /\ \/ \E e \in ErrorTexts :
          /\ look_calls' = Append(look_calls, [call |-> "scraper", raised |-> TRUE])
          /\ look_pc' = "returned"
          /\ look_response' =
               http_response(500, [ok |-> FALSE, error |-> "SCRAPER_EXCEPTION",
                                   message |-> e])
          /\ UNCHANGED look_result
     \/ \E result \in ScraperResults :
          /\ look_calls' = Append(look_calls, [call |-> "scraper", raised |-> FALSE])
          /\ look_result' = result
          /\ IF result = NoneDict \/ ~result.success
             THEN /\ look_pc' = "returned"
                  /\ look_response' =
                       http_response(502, [ok |-> FALSE, error |-> "SCRAPE_FAILED",
                                           details |-> result])
             ELSE /\ look_pc' =
                       IF /\ LookReceive(look_event).session_id # ""
                          /\ look_event.INTAKE_TABLE # ""
                       THEN "write" ELSE "respond"
                  /\ UNCHANGED look_response
  /\ UNCHANGED look_event
  /\ UNCHANGED <<adapter, bcc_vars, logan_vars, ref_vars, doc_vars, det_vars,
                 run_vars, http_vars, norm_vars, scr_vars>>

\* Mutant: a failed session write is answered with an error.
LookWriteFailsLoudly ==
  /\ adapter = "LOOKUP"
  /\ look_pc = "write"
  /\ \E raised \in BOOLEAN :
       /\ look_calls' =
            Append(look_calls, [call |-> "dynamodb.update_item", raised |-> raised])
       /\ look_pc' = IF raised THEN "returned" ELSE "respond"
       /\ look_response' =
            IF raised
            THEN http_response(500, [ok |-> FALSE, error |-> "DDB_WRITE_ERROR"])
            ELSE look_response
  /\ UNCHANGED <<look_event, look_result>>
  /\ UNCHANGED <<adapter, bcc_vars, logan_vars, ref_vars, doc_vars, det_vars,
                 run_vars, http_vars, norm_vars, scr_vars>>

\* Lines 105-124: the session record is written; an exception is printed
\* and the handler goes on.
LookWrite ==
  /\ adapter = "LOOKUP"
  /\ look_pc = "write"
  /\ \E raised \in BOOLEAN :
       look_calls' =
         Append(look_calls, [call |-> "dynamodb.update_item", raised |-> raised])
  /\ look_pc' = "respond"
  /\ UNCHANGED <<look_event, look_result, look_response>>
  /\ UNCHANGED <<adapter, bcc_vars, logan_vars, ref_vars, doc_vars, det_vars,
                 run_vars, http_vars, norm_vars, scr_vars>>

\* Lines 126-135: the project metadata is returned.
LookRespond ==
  /\ adapter = "LOOKUP"
  /\ look_pc = "respond"
  /\ look_pc' = "returned"
  /\ \E r \in {LookReceive(look_event)} :
       look_response' =
         http_response(200,
           [ok |-> TRUE, councilCode |-> r.council_code,
            daNumber |-> r.da_number,
            sessionId |-> IF r.session_id = "" THEN NoneStr ELSE r.session_id,
            projectMetadata |-> project_metadata(look_result, r.da_number)])
  /\ UNCHANGED <<look_event, look_calls, look_result>>
  /\ UNCHANGED <<adapter, bcc_vars, logan_vars, ref_vars, doc_vars, det_vars,
                 run_vars, http_vars, norm_vars, scr_vars>>

LookNext == LookRequest \/ LookScrape \/ LookWrite \/ LookRespond

---------------------------------------------------------------------------
(***************************************************************************)
(* Invocations.                                                            *)
(***************************************************************************)
\* The function is invoked once.
RunOnce ==
  /\ rerun = "no"
  /\ replay = <<>>
  /\ first_output = NoOutput

\* The function will be invoked a second time on the same input.
RunTwice ==
  /\ rerun = "pending"
  /\ replay = <<>>
  /\ first_output = NoOutput

---------------------------------------------------------------------------
(***************************************************************************)
(* Specifications.                                                         *)
(***************************************************************************)
\* The condition builders of the two adapters.
InitWalk ==
  /\ adapter \in {"BCC", "LOGAN"}
  /\ BccInit
  /\ LoganInit
  /\ RefIdle
  /\ DocIdle
  /\ DetIdle
  /\ RunOnce
  /\ HttpIdle
  /\ NormIdle
  /\ ScrIdle
  /\ LookIdle

NextWalk == BccNext \/ LoganNext

SpecWalk == InitWalk /\ [][NextWalk]_vars

\* A condition builder invoked twice on the same input.
InitTwice ==
  /\ adapter \in {"BCC", "LOGAN"}
  /\ BccInit
  /\ LoganInit
  /\ RefIdle
  /\ DocIdle
  /\ DetIdle
  /\ RunTwice
  /\ HttpIdle
  /\ NormIdle
  /\ ScrIdle
  /\ LookIdle

NextTwice == BccNext \/ LoganNext \/ BccInvokeAgain \/ LoganInvokeAgain

SpecTwice == InitTwice /\ [][NextTwice]_vars

\* The obligation refiner of the BCC adapter.
InitRefine ==
  /\ adapter = "REFINER"
  /\ BccInit
  /\ LoganInit
  /\ RefInit
  /\ DocIdle
  /\ DetIdle
  /\ RunOnce
  /\ HttpIdle
  /\ NormIdle
  /\ ScrIdle
  /\ LookIdle

NextRefine == Refine

SpecRefine == InitRefine /\ [][NextRefine]_vars

\* The documents table of the BCC adapter.
InitDoc ==
  /\ adapter = "DOCUMENTS"
  /\ BccInit
  /\ LoganInit
  /\ RefIdle
  /\ DocInit
  /\ DetIdle
  /\ RunOnce
  /\ HttpIdle
  /\ NormIdle
  /\ ScrIdle
  /\ LookIdle

NextDoc == DocRow

SpecDoc == InitDoc /\ [][NextDoc]_vars

\* The header fields of the two adapters.
InitDetails ==
  /\ adapter \in {"BCC", "LOGAN"}
  /\ BccInit
  /\ LoganInit
  /\ RefIdle
  /\ DocIdle
  /\ DetInit
  /\ RunOnce
  /\ HttpIdle
  /\ NormIdle
  /\ ScrIdle
  /\ LookIdle

NextDetails == BccDetails \/ LoganDetails

SpecDetails == InitDetails /\ [][NextDetails]_vars

\* One invocation of the handler.
InitHandler ==
  /\ adapter = "HANDLER"
  /\ BccInit
  /\ LoganInit
  /\ RefIdle
  /\ DocIdle
  /\ DetIdle
  /\ RunOnce
  /\ HttpInit
  /\ NormIdle
  /\ ScrIdle
  /\ LookIdle

NextHandler == HttpNext

SpecHandler == InitHandler /\ [][NextHandler]_vars

\* One call of the line normaliser.
InitNormalise ==
  /\ adapter = "NORMALISER"
  /\ BccInit
  /\ LoganInit
  /\ RefIdle
  /\ DocIdle
  /\ DetIdle
  /\ RunOnce
  /\ HttpIdle
  /\ NormInit
  /\ ScrIdle
  /\ LookIdle

NextNormalise == Normalise

SpecNormalise == InitNormalise /\ [][NextNormalise]_vars

\* One call of a scraper.
InitScrape ==
  /\ adapter = "SCRAPER"
  /\ BccInit
  /\ LoganInit
  /\ RefIdle
  /\ DocIdle
  /\ DetIdle
  /\ RunOnce
  /\ HttpIdle
  /\ NormIdle
  /\ ScrInit
  /\ LookIdle

NextScrape == ScrNext

SpecScrape == InitScrape /\ [][NextScrape]_vars

\* One invocation of the council-lookup handler.
InitLookup ==
  /\ adapter = "LOOKUP"
  /\ BccInit
  /\ LoganInit
  /\ RefIdle
  /\ DocIdle
  /\ DetIdle
  /\ RunOnce
  /\ HttpIdle
  /\ NormIdle
  /\ ScrIdle
  /\ LookInit

NextLookup == LookNext

SpecLookup == InitLookup /\ [][NextLookup]_vars

---------------------------------------------------------------------------
(***************************************************************************)
(* The returned tree, read from the sections and the condition dicts.      *)
(***************************************************************************)
RECURSIVE Concat(_)
Concat(q) == IF q = <<>> THEN <<>> ELSE Head(q) \o Concat(Tail(q))

\* The conditions of the tree in reading order, each followed by its
\* descendants: one entry for every place a condition occupies in the tree.
RECURSIVE PreorderOf(_, _)
PreorderOf(ns, ids) ==
  IF ids = <<>> THEN <<>>
  ELSE <<Head(ids)>> \o PreorderOf(ns, ns[Head(ids)].children)
         \o PreorderOf(ns, Tail(ids))

Preorder(secs, ns) ==
  PreorderOf(ns, Concat([k \in 1..Len(secs) |-> secs[k].conditions]))

\* The conditions listed directly in some section.
TopLevelIds(secs) ==
  UNION {{secs[k].conditions[j] : j \in 1..Len(secs[k].conditions)} :
           k \in 1..Len(secs)}

\* The conditions that can be reached from the sections.
RECURSIVE ReachableFrom(_, _)
ReachableFrom(ns, S) ==
  LET T == S \cup UNION {{ns[n].children[j] : j \in 1..Len(ns[n].children)} :
                           n \in S}
  IN IF T = S THEN S ELSE ReachableFrom(ns, T)

Reachable(secs, ns) == ReachableFrom(ns, TopLevelIds(secs))

\* The numbers of a list of conditions.
Numbers(ns, ids) == [k \in 1..Len(ids) |-> ns[ids[k]].number]

(***************************************************************************)
(* The document a BCC walk has read, described from its bold runs alone.   *)
(***************************************************************************)
\* What the condition-number pattern makes of each sample bold run.
BoldMatch == [b \in BoldRuns |-> CondMatch(Clean(b.text))]

\* Bold run k matches the condition-number pattern.
BccMatches(k) == BoldMatch[walked[k]].matched

\* Bold run k matches and lies in a table row with at least two cells.
BccInRow(k) == BccMatches(k) /\ walked[k].row = "two"

BccBuilt == {k \in 1..Len(walked) : BccInRow(k)}

\* The condition dict built from bold run k: dicts are created in order.
BccNodeOf(k) == Cardinality({j \in 1..k : BccInRow(j)})

BccBase(k) == BoldMatch[walked[k]].base_num
BccSuffix(k) == BoldMatch[walked[k]].suffix

\* Bold run k is a category heading.
BccHeading(k) ==
  /\ Clean(walked[k].text) # <<>>
  /\ ~BccMatches(k)
  /\ walked[k].timingTable

\* The top-level conditions with base number of run k processed before k.
BccParentsBefore(k) ==
  {j \in 1..(k - 1) :
     BccInRow(j) /\ BccSuffix(j) = <<>> /\ BccBase(j) = BccBase(k)}

\* The section title in force when bold run k is read.
BccTitleAt(k) ==
  LET hs == {j \in 1..(k - 1) : BccHeading(j)} IN
  IF hs = {} THEN <<"General">> ELSE Clean(walked[Max(hs)].text)

\* The sections as the final flush() would leave them.
BccSectionsNow == Flush(sections, current_section_title, current_conditions)

(***************************************************************************)
(* The document a Logan walk was given: the lines read and those left.     *)
(***************************************************************************)
LoganDoc == lines \o unread

\* What the line patterns make of each sample line.
LineKind ==
  [l \in LoganLines |->
     [cond |-> COND_INLINE_RE(Clean(l)).matched \/ COND_NUM_ONLY_RE(Clean(l)).matched,
      section |-> SECTION_LINE_RE(Clean(l)).matched,
      advice |-> FURTHER_ADVICE_RE(Clean(l))]]

\* Line k matches a condition-number pattern.
LoganCondLine(doc, k) == LineKind[doc[k]].cond

\* Line k is a section header.
LoganSectionLine(doc, k) == LineKind[doc[k]].section

\* Line k is a "FURTHER ADVICE" line.
LoganAdviceLine(doc, k) == LineKind[doc[k]].advice

\* The line at which the walk stops: the first "FURTHER ADVICE" line that the
\* outer loop reads, that is one not inside the body of a condition (the
\* last section or condition marker before it, if any, is a section header).
LoganStop(doc) ==
  LET stops == {k \in 1..Len(doc) :
                  /\ LoganAdviceLine(doc, k)
                  /\ LET ms == {j \in 1..(k - 1) :
                                  LoganCondLine(doc, j) \/ LoganSectionLine(doc, j)}
                     IN ms = {} \/ LoganSectionLine(doc, Max(ms))}
  IN IF stops = {} THEN Len(doc) + 1 ELSE Min(stops)

---------------------------------------------------------------------------
(***************************************************************************)
(* Claims about the condition builders.                                    *)
(***************************************************************************)

\* C1 (as stated): when the walk has returned, the tree holds exactly as
\* many condition nodes as the input holds items that match a
\* condition-number pattern, wherever the item sits (a bold run outside a
\* two-cell row, a line after "FURTHER ADVICE").
C1_NoLossEveryMatch ==
  /\ (adapter = "BCC" /\ bcc_pc = "done") =>
       Len(Preorder(sections, nodes)) =
         Cardinality({k \in 1..Len(walked) : BccMatches(k)})
  /\ (adapter = "LOGAN" /\ logan_pc = "done") =>
       Len(Preorder(logan_sections, logan_nodes)) =
         Cardinality({k \in 1..Len(LoganDoc) : LoganCondLine(LoganDoc, k)})

\* C1 (amended): when the walk has returned, the tree holds exactly as many
\* condition nodes as there are matching bold runs in a table row with at
\* least two cells (BCC), or matching lines before the line the walk stops
\* at (Logan).
C1_NoLossProcessed ==
  /\ (adapter = "BCC" /\ bcc_pc = "done") =>
       Len(Preorder(sections, nodes)) = Cardinality(BccBuilt)
  /\ (adapter = "LOGAN" /\ logan_pc = "done") =>
       Len(Preorder(logan_sections, logan_nodes)) =
         Cardinality({k \in 1..Len(LoganDoc) :
                        LoganCondLine(LoganDoc, k) /\ k < LoganStop(LoganDoc)})

\* A finished BCC walk that built a parent, a child and an orphan and met a
\* matching bold run outside a two-cell row.
C1_Witness ==
  /\ adapter = "BCC"
  /\ bcc_pc = "done"
  /\ Cardinality(BccBuilt) = 3
  /\ \E k \in 1..Len(walked) : BccMatches(k) /\ ~BccInRow(k)
  /\ \E k \in BccBuilt : BccSuffix(k) # <<>> /\ BccParentsBefore(k) = {}
  /\ \E k \in BccBuilt : BccSuffix(k) # <<>> /\ BccParentsBefore(k) # {}

\* C2: a subcondition B(x) processed after a top-level condition B is a child
\* of B and of no other node, is in no section's top-level list, and the
\* children of every top-level condition are exactly the subconditions that
\* arrived while it was the latest B, in arrival order.
C2_SubconditionAttached ==
  adapter = "BCC" =>
    /\ LET top == TopLevelIds(BccSectionsNow) IN
       \A k \in BccBuilt :
         (BccSuffix(k) # <<>> /\ BccParentsBefore(k) # {}) =>
           LET n == BccNodeOf(k)
               p == BccNodeOf(Max(BccParentsBefore(k)))
           IN /\ n \notin top
              /\ \A m \in 1..Len(nodes) :
                   (\E i \in 1..Len(nodes[m].children) :
                      nodes[m].children[i] = n) <=> m = p
    /\ \A n \in 1..Len(nodes) :
         \A i, j \in 1..Len(nodes[n].children) :
           i < j => nodes[n].children[i] < nodes[n].children[j]

\* The walk of "8) ...", "8(a) ...", "8(B)(a) ..." has returned: one section,
\* its only condition "8" with children "8(a)", "8(b)".
C2_Witness ==
  /\ adapter = "BCC"
  /\ bcc_pc = "done"
  /\ Len(sections) = 1
  /\ Numbers(nodes, sections[1].conditions) = << <<"8">> >>
  /\ Numbers(nodes, nodes[sections[1].conditions[1]].children) =
       << <<"8", "(a)">>, <<"8", "(b)">> >>

\* C3: a subcondition B(x) processed before any top-level B is listed exactly
\* once, at top level, in a section that carries the title in force when it
\* was read.
C3_OrphanKept ==
  adapter = "BCC" =>
    LET secs == BccSectionsNow
        order == Preorder(secs, nodes)
    IN \A k \in BccBuilt :
         (BccSuffix(k) # <<>> /\ BccParentsBefore(k) = {}) =>
           LET n == BccNodeOf(k) IN
           /\ \E s \in 1..Len(secs) :
                /\ secs[s].title = BccTitleAt(k)
                /\ \E i \in 1..Len(secs[s].conditions) :
                     secs[s].conditions[i] = n
           /\ Cardinality({i \in 1..Len(order) : order[i] = n}) = 1
           /\ nodes[n].number = BccBase(k) \o BccSuffix(k)
           /\ nodes[n].parentNumber = NoParent

\* "7(a) ..." was read under the heading "Landscaping" before any "7", and
\* the walk has returned with it in that section.
C3_Witness ==
  /\ adapter = "BCC"
  /\ bcc_pc = "done"
  /\ \E s \in 1..Len(sections) :
       /\ sections[s].title = <<"Landscaping">>
       /\ Numbers(nodes, sections[s].conditions) = << <<"7", "(a)">> >>

(***************************************************************************)
(* The row a refiner run was given, described from its two cells alone.    *)
(***************************************************************************)
\* The description cell's text and the timing cell's text, cleaned.
RowDesc == Clean(ref_cell0)
RowColumn == Clean(ref_cell1)

\* The places where a "PROOF OF FULFILMENT" marker followed by text starts.
ProofMarkers(text) == {k \in 1..Len(text) : ProofAt(text, k)}

\* The text before the first marker (all of it without one), and after it.
BeforeMarker(text) ==
  IF ProofMarkers(text) = {} THEN text
  ELSE Clean(SubSeq(text, 1, Min(ProofMarkers(text)) - 1))

AfterMarker(text) ==
  IF ProofMarkers(text) = {} THEN <<>>
  ELSE Clean(SubSeq(text, Min(ProofMarkers(text)) + 1, Len(text)))

\* The places where a "Timing:" phrase starts.
TimingPhrases(text) == {k \in 1..Len(text) : TimingAt(text, k)}

\* The first "Timing:" phrase of a text (empty without one), and what
\* precedes it.
PhraseOf(text) ==
  IF TimingPhrases(text) = {} THEN <<>>
  ELSE Clean(SubSeq(text, Min(TimingPhrases(text)) + 1, Len(text)))

BeforePhrase(text) ==
  IF TimingPhrases(text) = {} THEN text
  ELSE Clean(SubSeq(text, 1, Min(TimingPhrases(text)) - 1))

\* The timing column holds nothing, or "as indicated" in any case.
ColumnIsPlaceholder ==
  RowColumn = <<>> \/ Lower(RowColumn) = <<"as", " ", "indicated">>

\* C4: a timing column that is neither empty nor "as indicated" gives the
\* timing and the source "column", with or without an inline phrase; an
\* empty or "as indicated" column and an inline phrase in the description
\* proper (the text before any proof-of-fulfilment marker) give the phrase
\* and the source "inline".
C4_TimingPrecedence ==
  ref_pc = "done" =>
    /\ ~ColumnIsPlaceholder =>
         /\ ref_condition.timing = RowColumn
         /\ ref_condition.timingSource = "column"
    /\ (ColumnIsPlaceholder /\ TimingPhrases(BeforeMarker(RowDesc)) # {}) =>
         /\ ref_condition.timing = PhraseOf(BeforeMarker(RowDesc))
         /\ ref_condition.timingSource = "inline"

\* The row "x Timing: y" with the column "As indicated" was refined: the
\* timing is the inline phrase.
C4_Witness ==
  /\ ref_pc = "done"
  /\ ref_cell0 = <<"x", " ", "Timing:", " ", "y">>
  /\ ref_cell1 = <<"As", " ", "indicated">>
  /\ ref_condition.timing = <<"y">>
  /\ ref_condition.timingSource = "inline"
  /\ ref_condition.description = <<"x">>

\* C5: an empty or "as indicated" timing column and a description without
\* an inline timing phrase give timing "" and timingSource "".
C5_TimingAbsent ==
  ref_pc = "done" =>
    ((ColumnIsPlaceholder /\ TimingPhrases(BeforeMarker(RowDesc)) = {}) =>
       /\ ref_condition.timing = <<>>
       /\ ref_condition.timingSource = "")

\* C6: when the description holds a "PROOF OF FULFILMENT" marker followed by
\* text with a "Timing:" phrase, material holds the proof text without the
\* phrase, and the phrase; the description, timingInline and timing are
\* those of the text before the marker alone: the description is that text
\* (cut at its own "Timing:" phrase when it has one), timingInline is its own
\* phrase or empty, and timing is never taken from the proof block.
C6_ProofIsolated ==
  ref_pc = "done" =>
    ((/\ ProofMarkers(RowDesc) # {}
      /\ TimingPhrases(AfterMarker(RowDesc)) # {}) =>
       LET own == BeforeMarker(RowDesc)
           proof == AfterMarker(RowDesc)
       IN /\ ref_condition.material =
               [present |-> TRUE, required |-> TRUE,
                description |-> BeforePhrase(proof), timing |-> PhraseOf(proof)]
          /\ ref_condition.description = BeforePhrase(own)
          /\ (TimingPhrases(own) = {} => ref_condition.description = own)
          /\ ref_condition.timingInline = PhraseOf(own)
          /\ ref_condition.timing =
               IF ColumnIsPlaceholder /\ TimingPhrases(own) # {}
               THEN PhraseOf(own) ELSE RowColumn)

\* The row "x PROOF OF FULFILMENT z Timing: w" with the column "As indicated"
\* was refined: the proof block went to material and the condition has no
\* inline timing of its own.
C6_Witness ==
  /\ ref_pc = "done"
  /\ ref_cell0 =
       <<"x", " ", "PROOF OF FULFILMENT", " ", "z", " ", "Timing:", " ", "w">>
  /\ ref_cell1 = <<"As", " ", "indicated">>
  /\ ref_condition.description = <<"x">>
  /\ ref_condition.material.description = <<"z">>
  /\ ref_condition.material.timing = <<"w">>
  /\ ref_condition.timingInline = <<>>
  /\ ref_condition.timing = <<"As", " ", "indicated">>

(***************************************************************************)
(* The plan-number field a documents row was given.                        *)
(***************************************************************************)
\* The field holds a separator "|".
HasBar(s) == \E k \in 1..Len(s) : s[k] = "|"

\* The text after the first "|" of the field.
AfterBar(s) ==
  SubSeq(s, Min({k \in 1..Len(s) : s[k] = "|"}) + 1, Len(s))

\* The first revision code of a text (empty without one).
RevisionCode(s) ==
  LET ms == {k \in 1..Len(s) : RevEndAt(s, k) > 0} IN
  IF ms = {} THEN <<>> ELSE Clean(SubSeq(s, Min(ms), RevEndAt(s, Min(ms))))

\* C7: for a plan-number field "<reference> <revision code> | <author>" the
\* entry's revision is the revision code and its preparedBy is the author
\* text, the text after the separator.
C7_DocumentSplit ==
  (/\ doc_pc = "done"
   /\ HasBar(doc_entry.number)
   /\ RevisionCode(BeforeBar(doc_entry.number)) # <<>>
   /\ Clean(AfterBar(doc_entry.number)) # <<>>
   /\ ~HasBar(AfterBar(doc_entry.number))) =>
    /\ doc_entry.revision = RevisionCode(BeforeBar(doc_entry.number))
    /\ doc_entry.preparedBy = Clean(AfterBar(doc_entry.number))

\* C8: summary.numberOfConditions is the number of condition nodes that can
\* be reached in the tree: in BCC at every step of the walk (the pending
\* conditions counted as the final flush would list them), in Logan when the
\* sections are returned.
C8_CountMatchesTree ==
  /\ adapter = "BCC" =>
       BccNumberOfConditions = Cardinality(Reachable(BccSectionsNow, nodes))
  /\ (adapter = "LOGAN" /\ logan_pc = "done") =>
       LoganNumberOfConditions =
         Cardinality(Reachable(logan_sections, logan_nodes))

\* A returned Logan tree with a nested condition, and so a count above the
\* number of top-level conditions.
C8_Witness ==
  /\ adapter = "LOGAN"
  /\ logan_pc = "done"
  /\ LoganNumberOfConditions = 3
  /\ Cardinality(TopLevelIds(logan_sections)) = 2

\* C9: a document without headings and without condition markers yields no
\* sections and a count of zero.
C9_EmptyDocument ==
  /\ (/\ adapter = "BCC"
      /\ bcc_pc = "done"
      /\ \A k \in 1..Len(walked) : ~BccMatches(k) /\ ~BccHeading(k)) =>
       sections = <<>> /\ BccNumberOfConditions = 0
  /\ (/\ adapter = "LOGAN"
      /\ logan_pc = "done"
      /\ \A k \in 1..Len(LoganDoc) :
           ~LoganCondLine(LoganDoc, k) /\ ~LoganSectionLine(LoganDoc, k)) =>
       logan_sections = <<>> /\ LoganNumberOfConditions = 0

\* A Logan walk that read three lines, none a heading or a marker, and
\* returned.
C9_Witness ==
  /\ adapter = "LOGAN"
  /\ logan_pc = "done"
  /\ Len(lines) = 3
  /\ \A k \in 1..Len(lines) : Clean(lines[k]) # <<>>
  /\ \A k \in 1..Len(LoganDoc) :
       ~LoganCondLine(LoganDoc, k) /\ ~LoganSectionLine(LoganDoc, k)
  /\ logan_sections = <<>>

(***************************************************************************)
(* Claims about the header fields.                                         *)
(***************************************************************************)
\* The header fields of applicationDetails.
HeaderFields ==
  {"addressOfSite", "realPropertyDescriptionOfSite",
   "aspectsOfDevelopmentAndTypeOfApproval", "councilFileReference",
   "permitReferenceNumbers", "packageStatus", "packageGenerated"}

\* The document given to the adapter holds no "APPLICATION DETAILS" block
\* (BCC) or no line at all (Logan).
NoDetailsBlock ==
  \/ adapter = "BCC" /\ ~det_marker
  \/ adapter = "LOGAN" /\ det_lines = <<>>

\* C10: in the result of each adapter every header field of
\* applicationDetails is present, and each is the empty string when the
\* document holds no "APPLICATION DETAILS" block.
C10_DetailsShape ==
  det_pc = "done" =>
    /\ HeaderFields \subseteq DOMAIN det_result.applicationDetails
    /\ NoDetailsBlock =>
         \A f \in HeaderFields :
           f \in DOMAIN det_result.applicationDetails
             /\ det_result.applicationDetails[f] = <<>>

---------------------------------------------------------------------------
(***************************************************************************)
(* Claims about invocations, references and order.                         *)
(***************************************************************************)

C12_BackReference ==
  LET ns == IF adapter = "BCC" THEN nodes ELSE logan_nodes
      secs == IF adapter = "BCC" THEN BccSectionsNow ELSE logan_sections
  IN /\ \A m \in 1..Len(ns) :
          \A i \in 1..Len(ns[m].children) :
            ns[ns[m].children[i]].parentNumber = ns[m].number
     /\ \A n \in TopLevelIds(secs) : ns[n].parentNumber = NoParent

\* The members of a finite set of integers, in ascending order.
RECURSIVE Sorted(_)
Sorted(S) == IF S = {} THEN <<>> ELSE <<Min(S)>> \o Sorted(S \ {Min(S)})

\* The bold run from which condition dict n was built.
BccRunOf(n) == CHOOSE k \in BccBuilt : BccNodeOf(k) = n

\* The number of category headings before bold run k.
BccSegment(k) == Cardinality({j \in 1..(k - 1) : BccHeading(j)})

\* The lines from which the Logan walk built a condition, in source order,
\* and the section headers it read.
LoganCondsRead ==
  Sorted({k \in 1..Len(LoganDoc) :
            LoganCondLine(LoganDoc, k) /\ k < LoganStop(LoganDoc)})

LoganSectionsRead ==
  Sorted({k \in 1..Len(LoganDoc) :
            LoganSectionLine(LoganDoc, k) /\ k < LoganStop(LoganDoc)})

\* The title the walk gives the section of header line l.
LoganTitleOf(l) ==
  LET ms == SECTION_LINE_RE(Clean(l)) IN Clean(ms.num \o <<".", WS>> \o ms.title)

\* A sequence of integers is strictly ascending.
Ascending(q) == \A i, j \in 1..Len(q) : i < j => q[i] < q[j]

\* C13: condition dicts are created in the order of their markers; every
\* section's list and every children list is in that order; the sections are
\* in the order of their headings, each holding the conditions read under
\* its heading.
C13_SourceOrder ==
  /\ adapter = "BCC" =>
       LET secs == BccSectionsNow IN
       /\ Len(nodes) = Cardinality(BccBuilt)
       /\ \A k \in BccBuilt :
            nodes[BccNodeOf(k)].number = BccBase(k) \o BccSuffix(k)
       /\ \A n \in 1..Len(nodes) : Ascending(nodes[n].children)
       /\ \A s \in 1..Len(secs) :
            /\ Ascending(secs[s].conditions)
            /\ \A i \in 1..Len(secs[s].conditions) :
                 LET k == BccRunOf(secs[s].conditions[i]) IN
                 /\ secs[s].title = BccTitleAt(k)
                 /\ BccSegment(k) = BccSegment(BccRunOf(secs[s].conditions[1]))
                 /\ \A t \in 1..(s - 1) :
                      BccSegment(BccRunOf(secs[t].conditions[1])) < BccSegment(k)
  /\ adapter = "LOGAN" =>
       LET cs == LoganCondsRead
           hs == LoganSectionsRead
           unsorted == cs # <<>> /\ (hs = <<>> \/ cs[1] < hs[1])
           offset == IF unsorted THEN 1 ELSE 0
       IN /\ Len(logan_nodes) = Len(cs)
          /\ \A n \in 1..Len(cs) :
               logan_nodes[n].number = CondNumber(Clean(LoganDoc[cs[n]])).num
          /\ \A n \in 1..Len(logan_nodes) : Ascending(logan_nodes[n].children)
          /\ [t \in 1..Len(logan_sections) |-> logan_sections[t].title] =
               (IF unsorted THEN << <<"UNSORTED">> >> ELSE <<>>)
                 \o [i \in 1..Len(hs) |-> LoganTitleOf(LoganDoc[hs[i]])]
          /\ \A t \in 1..Len(logan_sections) :
               /\ Ascending(logan_sections[t].conditions)
               /\ \A i \in 1..Len(logan_sections[t].conditions) :
                    LET k == cs[logan_sections[t].conditions[i]] IN
                    t = offset + Cardinality({j \in 1..Len(hs) : hs[j] < k})

\* The BCC walk has returned two sections, "Landscaping" then "Engineering",
\* each with a condition.
C13_Witness ==
  /\ adapter = "BCC"
  /\ bcc_pc = "done"
  /\ Len(sections) = 2
  /\ sections[1].title = <<"Landscaping">>
  /\ sections[2].title = <<"Engineering">>

\* C14: once a line that starts with "FURTHER ADVICE" has been read, the walk
\* has stopped at that line (no later line is read) and no description holds
\* the text of that line.
C14_EndMarkerTerminal ==
  adapter = "LOGAN" =>
    \A k \in 1..Len(lines) :
      LoganAdviceLine(lines, k) =>
        /\ logan_pc = "done"
        /\ k = Len(lines)
        /\ \A n \in 1..Len(logan_nodes) :
             \A i \in 1..Len(logan_nodes[n].description) :
               LowerTok(logan_nodes[n].description[i]) # "further advice"

\* C20: no condition's description holds a proof-of-fulfilment block or an
\* inline "Timing:" phrase, and a Logan condition whose body ends in
\* "Timing: ..." has that timing with timingSource "inline".
C20_EveryConditionRefined ==
  LET ns == IF adapter = "BCC" THEN nodes ELSE logan_nodes IN
  /\ \A n \in 1..Len(ns) :
       \A k \in 1..Len(ns[n].description) :
         ~TimingAt(ns[n].description, k) /\ ~ProofAt(ns[n].description, k)
  /\ adapter = "LOGAN" =>
       \A n \in 1..Len(LoganCondsRead) :
         LET body == COND_INLINE_RE(Clean(LoganDoc[LoganCondsRead[n]])).desc IN
         (\E k \in 1..Len(body) : TimingAt(body, k)) =>
           /\ logan_nodes[n].timing # <<>>
           /\ logan_nodes[n].timingSource = "inline"

(***************************************************************************)
(* Claims about the field extractor.                                       *)
(***************************************************************************)
\* A scan window shorter than the cover page.
MaxWindow == 2

\* The label patterns of the cover page, and the same labels as patterns
\* without a capture group.
LabelPatterns ==
  {[label |-> l, group1 |-> g] :
     l \in {"APPLICANT", "APPLICATION NUMBER", "Officer Name", "Contact Number",
            "Document Number", "Street Address", "Real Property Description"},
     g \in {"value", "none"}}
  \cup {[label |-> "TYPE & DESCRIPTION", group1 |-> "label"]}

\* The lines of the window that match the label.
LabelLines(ls, label, window) ==
  {i \in 1..Len(ls) : i <= window /\ LabelMatch(Clean(ls[i]), label).matched}

\* What the three rules give for the first matching line i.
RuleValue(ls, pat, i) ==
  LET line == Clean(ls[i])
      m == LabelMatch(line, pat.label)
      captured == CASE pat.group1 = "value" -> Clean(m.value)
                    [] pat.group1 = "label" -> Clean(m.label)
                    [] OTHER -> <<>>
      colons == {k \in 1..Len(line) : line[k] = ":"}
      after == IF colons = {} THEN <<>>
               ELSE Clean(SubSeq(line, Min(colons) + 1, Len(line)))
      later == {j \in (i + 1)..Len(ls) : Clean(ls[j]) # <<>>}
  IN IF captured # <<>> THEN captured
     ELSE IF after # <<>> THEN after
     ELSE IF later # {} THEN Clean(ls[Min(later)])
     ELSE <<>>

\* C15: for every label pattern and window, the extractor returns "" when no
\* line of the window matches, and otherwise, for the first matching line,
\* the capture group, else the text after the first ":", else the next
\* non-blank line; the adapter's fields hold these values.
C15_ResolutionOrder ==
  adapter = "LOGAN" =>
    /\ \A pat \in LabelPatterns :
         \A window \in {MaxWindow, scan_limit} :
           LET hits == LabelLines(det_lines, pat.label, window) IN
           _find_value_after_label(det_lines, pat.label, pat.group1, window) =
             (IF hits = {} THEN <<>> ELSE RuleValue(det_lines, pat, Min(hits)))
    /\ det_pc = "done" =>
         LET fields == [applicant |-> "APPLICANT",
                        councilFileReference |-> "APPLICATION NUMBER",
                        officerName |-> "Officer Name",
                        contactNumber |-> "Contact Number",
                        documentNumber |-> "Document Number",
                        addressOfSite |-> "Street Address",
                        realPropertyDescriptionOfSite |->
                          "Real Property Description"]
         IN \A f \in DOMAIN fields :
              LET hits == LabelLines(det_lines, fields[f], scan_limit)
                  pat == [label |-> fields[f], group1 |-> "value"]
              IN det_result.applicationDetails[f] =
                   (IF hits = {} THEN <<>>
                    ELSE RuleValue(det_lines, pat, Min(hits)))

\* The cover page "Document Number:", "x", "Street Address: x" has been
\* read: the document number is the next non-blank line, the address is the
\* capture group, and a window of two lines does not reach the address.
C15_Witness ==
  /\ adapter = "LOGAN"
  /\ det_pc = "done"
  /\ det_lines = << <<"Document Number", ":">>, <<"x">>,
                    <<"Street Address", ":", " ", "x">> >>
  /\ det_result.applicationDetails.documentNumber = <<"x">>
  /\ det_result.applicationDetails.addressOfSite = <<"x">>
  /\ _find_value_after_label(det_lines, "Street Address", "value", MaxWindow) = <<>>

(***************************************************************************)
(* Claims about the handler.                                               *)
(***************************************************************************)
\* The JSON text a POST request carries, if it carries one.
CarriesText ==
  /\ event.method = "POST"
  /\ event.body.enc \in {"text", "base64"}

\* The body is not JSON.
InvalidJsonBody == CarriesText /\ event.body.text.syntax = "malformed"

\* The body is a JSON object.
ObjectBody ==
  /\ CarriesText
  /\ event.body.text.syntax = "json"
  /\ event.body.text.value.type = "dict"

\* The body is an object in which sessionId, fileKey or councilCode is
\* missing or empty.
MissingFieldBody ==
  /\ ObjectBody
  /\ \/ event.body.text.value.sessionId \in {Absent, ""}
     \/ event.body.text.value.fileKey \in {Absent, ""}
     \/ event.body.text.value.councilCode \in {Absent, ""}

\* The body is an object with the three fields, whose councilCode is a
\* string that names no parser.
UnregisteredCouncilBody ==
  /\ ObjectBody
  /\ ~MissingFieldBody
  /\ event.body.text.value.councilCode \notin {"logan", "BCC", NotAString}

\* The handler has returned the failure with this code.
Rejected(code) ==
  /\ http_pc = "returned"
  /\ "error" \in DOMAIN response.body
  /\ response.body.error = code

\* C16: once the request has been handled, an invalid JSON body is answered
\* with INVALID_JSON, a missing or empty field with MISSING_FIELDS, an
\* unregistered council with UNSUPPORTED_COUNCIL, and none of the
\* collaborators has been invoked.
C16_EarlyRejection ==
  (adapter = "HANDLER" /\ http_pc # "request") =>
    /\ InvalidJsonBody => (Rejected("INVALID_JSON") /\ calls = <<>>)
    /\ MissingFieldBody => (Rejected("MISSING_FIELDS") /\ calls = <<>>)
    /\ UnregisteredCouncilBody => (Rejected("UNSUPPORTED_COUNCIL") /\ calls = <<>>)

\* The fixed error codes.
ErrorCodes ==
  {"INVALID_JSON", "MISSING_FIELDS", "UNSUPPORTED_COUNCIL", "S3_READ_ERROR",
   "PARSER_ERROR", "DDB_WRITE_ERROR"}

\* C17: no invocation ends in an exception, and every response carries a
\* boolean "ok" and, when ok is false, one of the fixed error codes.
C17_EnvelopeTotal ==
  adapter = "HANDLER" =>
    /\ http_pc # "raised"
    /\ http_pc = "returned" =>
         /\ "ok" \in DOMAIN response.body
         /\ response.body.ok \in BOOLEAN
         /\ ~response.body.ok =>
              /\ "error" \in DOMAIN response.body
              /\ response.body.error \in ErrorCodes

\* C18: every failure response carries an "error" code and a "message".
C18_FailureHasMessage ==
  (adapter = "HANDLER" /\ http_pc = "returned" /\ ~response.body.ok) =>
    /\ "error" \in DOMAIN response.body
    /\ "message" \in DOMAIN response.body

\* C19: when the file was read and parsed and the session write failed, the
\* response still holds the parsed package.
C19_ExtractionKept ==
  (/\ adapter = "HANDLER"
   /\ http_pc = "returned"
   /\ calls = <<"s3.get_object", "parser_fn", "dynamodb.update_item">>
   /\ parsed \in Packages)
    => /\ "conditions" \in DOMAIN response.body
       /\ response.body.conditions = parsed

---------------------------------------------------------------------------
(***************************************************************************)
(* Claims about attachment, nesting and default sections.                  *)
(***************************************************************************)

\* C22: a Logan condition numbered P.k is a child of the latest condition
\* numbered P read before it, when there is one, and of no other node;
\* otherwise it is listed at top level in the section open when it was read
\* ("UNSORTED" when no header came before it).  Either way it occupies
\* exactly one place in the tree.
C22_HierarchicalAttachment ==
  adapter = "LOGAN" =>
    LET cs == LoganCondsRead
        hs == LoganSectionsRead
        order == Preorder(logan_sections, logan_nodes)
        top == TopLevelIds(logan_sections)
    IN /\ Len(logan_nodes) = Len(cs)
       /\ \A n \in 1..Len(logan_nodes) :
            LET P == ParentNumber(logan_nodes[n].number)
                earlier == {m \in 1..(n - 1) : logan_nodes[m].number = P}
                holders == {m \in 1..Len(logan_nodes) :
                              \E i \in 1..Len(logan_nodes[m].children) :
                                logan_nodes[m].children[i] = n}
                before == {j \in 1..Len(hs) : hs[j] < cs[n]}
            IN /\ Cardinality({i \in 1..Len(order) : order[i] = n}) = 1
               /\ IF earlier # {}
                  THEN holders = {Max(earlier)} /\ n \notin top
                  ELSE /\ holders = {}
                       /\ \E t \in 1..Len(logan_sections) :
                            /\ \E i \in 1..Len(logan_sections[t].conditions) :
                                 logan_sections[t].conditions[i] = n
                            /\ logan_sections[t].title =
                                 (IF before = {} THEN <<"UNSORTED">>
                                  ELSE LoganTitleOf(LoganDoc[hs[Max(before)]]))

\* The walk of "2.1. x", "2.1.1. y Timing: z", "7.1.2." has returned: one
\* section "UNSORTED" listing "2.1" (with child "2.1.1") and "7.1.2", whose
\* parent "7.1" was never read.
C22_Witness ==
  /\ adapter = "LOGAN"
  /\ logan_pc = "done"
  /\ Len(logan_sections) = 1
  /\ logan_sections[1].title = <<"UNSORTED">>
  /\ Numbers(logan_nodes, logan_sections[1].conditions) =
       << <<"2", ".", "1">>, <<"7", ".", "1", ".", "2">> >>
  /\ Numbers(logan_nodes,
             logan_nodes[logan_sections[1].conditions[1]].children) =
       << <<"2", ".", "1", ".", "1">> >>

\* The suffix group of the BCC pattern as it is stored: lower case.
BccSuffixes == {LowerTok(s) : s \in SuffixToks}

\* C23: every BCC number is a run of digits followed by at most one
\* "(letter)" suffix; a child has no children of its own, its number is its
\* parent's number followed by one suffix, and its parent is a top-level
\* condition whose number is digits only: the tree is at most two deep.
C23_SingleSuffixLevel ==
  adapter = "BCC" =>
    /\ \A n \in 1..Len(nodes) :
         LET num == nodes[n].number
             d == DigitRun(num)
         IN /\ d >= 1
            /\ \/ Len(num) = d
               \/ Len(num) = d + 1 /\ num[d + 1] \in BccSuffixes
    /\ \A m \in 1..Len(nodes) :
         \A i \in 1..Len(nodes[m].children) :
           LET n == nodes[m].children[i] IN
           /\ nodes[n].children = <<>>
           /\ DigitRun(nodes[m].number) = Len(nodes[m].number)
           /\ \E s \in BccSuffixes : nodes[n].number = nodes[m].number \o <<s>>
           /\ m \in TopLevelIds(BccSectionsNow)

\* The walk of "8) Trees", "8(a) Arborist", "8(B)(a)  Fencing" has returned:
\* "8" holds "8(a)" and "8(b)", the latter titled "(a) Fencing".
C23_Witness ==
  /\ adapter = "BCC"
  /\ bcc_pc = "done"
  /\ Len(walked) = 3
  /\ walked[3].text = <<"8", "(B)", "(a)", " ", " ", "Fencing">>
  /\ Len(sections) = 1
  /\ Len(sections[1].conditions) = 1
  /\ LET kids == nodes[sections[1].conditions[1]].children IN
     /\ Numbers(nodes, kids) = << <<"8", "(a)">>, <<"8", "(b)">> >>
     /\ nodes[kids[2]].title = <<"(a)", " ", "Fencing">>

\* A line that opens an advisory note: it starts with "This condition is
\* imposed under", "Further Advice:", "Advice Note:" or "Note:".
NoteOpener(t) ==
  /\ t # <<>>
  /\ \/ t[1] \in {"This condition is imposed under", "Note:", "Advice Note:"}
     \/ LowerTok(t[1]) = "further advice" /\ Len(t) >= 2 /\ t[2] = ":"

\* The nearest line before line k of the document that is not blank, not a
\* section header, not a condition marker, not the opener of an advisory
\* note and not long prose (over 120 characters, ending in "." or ";").
TopicBefore(doc, k) ==
  LET ok == {j \in 1..(k - 1) :
               LET t == Clean(doc[j]) IN
               /\ t # <<>>
               /\ ~LoganSectionLine(doc, j)
               /\ ~LoganCondLine(doc, j)
               /\ ~NoteOpener(t)
               /\ ~(StrLen(t) > 120 /\ t[Len(t)] \in {".", ";"})}
  IN IF ok = {} THEN <<>> ELSE Clean(doc[Max(ok)])

\* C25: the title of every Logan condition is the nearest line before its
\* marker that is not a section header, a condition marker, an advisory-note
\* opener or long prose, and is empty when there is no such line.
C25_TitleFromPrecedingLine ==
  adapter = "LOGAN" =>
    LET cs == LoganCondsRead IN
    \A n \in 1..Len(logan_nodes) :
      n <= Len(cs) => logan_nodes[n].title = TopicBefore(LoganDoc, cs[n])

\* The conditions found in or below the list of section s.
InSection(secs, ns, s) ==
  ReachableFrom(ns, {secs[s].conditions[i] : i \in 1..Len(secs[s].conditions)})

\* C26: a condition read before any heading is in the first section, titled
\* "General" (BCC) or "UNSORTED" (Logan); a section with that title exists
\* only when such a condition was read, and it is never empty.
C26_DefaultSection ==
  /\ adapter = "BCC" =>
       LET secs == BccSectionsNow
           early == {k \in BccBuilt : BccSegment(k) = 0}
       IN /\ \A k \in early :
               /\ secs # <<>>
               /\ secs[1].title = <<"General">>
               /\ BccNodeOf(k) \in InSection(secs, nodes, 1)
          /\ \A s \in 1..Len(secs) :
               secs[s].title = <<"General">> =>
                 /\ s = 1
                 /\ secs[s].conditions # <<>>
                 /\ early # {}
  /\ adapter = "LOGAN" =>
       LET cs == LoganCondsRead
           hs == LoganSectionsRead
           early == {n \in 1..Len(cs) : \A j \in 1..Len(hs) : cs[n] < hs[j]}
       IN /\ \A n \in early :
               /\ logan_sections # <<>>
               /\ logan_sections[1].title = <<"UNSORTED">>
               /\ n \in InSection(logan_sections, logan_nodes, 1)
          /\ \A t \in 1..Len(logan_sections) :
               logan_sections[t].title = <<"UNSORTED">> =>
                 /\ t = 1
                 /\ logan_sections[t].conditions # <<>>
                 /\ early # {}

\* The Logan walk of "2.1. x", "2. PROPERTY" has returned "UNSORTED" holding
\* "2.1", followed by the section of the header.
C26_Witness ==
  /\ adapter = "LOGAN"
  /\ logan_pc = "done"
  /\ Len(logan_sections) = 2
  /\ logan_sections[1].title = <<"UNSORTED">>
  /\ Numbers(logan_nodes, logan_sections[1].conditions) = << <<"2", ".", "1">> >>
  /\ logan_sections[2].title = <<"2", ".", " ", "PROPERTY">>

\* The node, if any, that lists node n among its children.
BccHolders(n) ==
  {m \in 1..Len(nodes) :
     \E i \in 1..Len(nodes[m].children) : nodes[m].children[i] = n}

\* C28: the only parent of a subcondition B(x) is the top-level B processed
\* most recently before it, whether that B sits in the section being built
\* or in one already flushed, and whether or not an older B exists; a B(x)
\* processed before every B stays at top level with no parent, also after a
\* B has been processed.
C28_MostRecentParent ==
  adapter = "BCC" =>
    LET top == TopLevelIds(BccSectionsNow) IN
    \A k \in BccBuilt :
      BccSuffix(k) # <<>> =>
        LET n == BccNodeOf(k)
            ps == BccParentsBefore(k)
        IN IF ps = {}
           THEN /\ BccHolders(n) = {}
                /\ n \in top
                /\ nodes[n].parentNumber = NoParent
           ELSE /\ BccHolders(n) = {BccNodeOf(Max(ps))}
                /\ n \notin top
                /\ nodes[n].parentNumber = BccBase(k)

\* "8) Trees" was flushed into "General" by the heading "Landscaping"; the
\* "8(a) Arborist" read after the heading is its child, and the walk has
\* returned that single section.
C28_Witness ==
  /\ adapter = "BCC"
  /\ bcc_pc = "done"
  /\ Len(walked) = 3
  /\ BccInRow(1) /\ BccSuffix(1) = <<>>
  /\ BccHeading(2)
  /\ BccInRow(3) /\ BccSuffix(3) # <<>>
  /\ Len(sections) = 1
  /\ sections[1].title = <<"General">>
  /\ Numbers(nodes, nodes[sections[1].conditions[1]].children) =
       << <<"8", "(a)">> >>

---------------------------------------------------------------------------
(***************************************************************************)
(* Claims about the order of the handler's stages.                         *)
(***************************************************************************)
\* The collaborators in the order the handler reaches them.
Stages == <<"s3.get_object", "parser_fn", "dynamodb.update_item">>

\* A response has been made and it carries this error code.
Failed(code) ==
  /\ response # NoResponse
  /\ "error" \in DOMAIN response.body
  /\ response.body.error = code

---------------------------------------------------------------------------
(***************************************************************************)
(* Claims about the line normaliser.                                       *)
(***************************************************************************)
\* The first line after line i that is not blank (Len + 1 if none).
NextNonBlank(ls, i) ==
  Min({j \in (i + 1)..(Len(ls) + 1) : j > Len(ls) \/ Clean(ls[j]) # <<>>})

\* The lines the repair is to give from line i on.  A section number alone
\* and the title in capitals that follows it become one line; the title is
\* the very next line (adjacent) or the next line that is not blank.  A line
\* with an embedded section header becomes its non-empty parts.  Blank lines
\* are dropped and every other line is kept, whitespace collapsed.
RECURSIVE Repaired(_, _, _)
Repaired(ls, i, adjacent) ==
  IF i > Len(ls) THEN <<>>
  ELSE LET l == Clean(ls[i])
           j == IF adjacent THEN i + 1 ELSE NextNonBlank(ls, i)
           m == inline_section(l)
           parts == <<Clean(m.a), Clean(m.b), Clean(m.rest)>>
       IN IF l = <<>> THEN Repaired(ls, i + 1, adjacent)
          ELSE IF /\ SECTION_NUM_ONLY_RE(l).matched
                  /\ j <= Len(ls)
                  /\ UPPER_TITLE_RE(Clean(ls[j]))
          THEN <<SECTION_NUM_ONLY_RE(l).num \o <<".", WS>> \o Clean(ls[j])>>
                 \o Repaired(ls, j + 1, adjacent)
          ELSE IF m.matched /\ SECTION_LINE_RE(Clean(m.b)).matched
          THEN SelectSeq(parts, LAMBDA part : part # <<>>)
                 \o Repaired(ls, i + 1, adjacent)
          ELSE <<l>> \o Repaired(ls, i + 1, adjacent)

\* C21: the lines returned are the repaired lines: a split section header
\* merged into "<N>. TITLE", an embedded header split out, every other
\* line kept in place with its whitespace collapsed, blank lines dropped.
C21_NormaliserRepair ==
  (adapter = "NORMALISER" /\ norm_pc = "returned") =>
    \/ norm_out = Repaired(norm_in, 1, TRUE)
    \/ norm_out = Repaired(norm_in, 1, FALSE)

\* The text of a list of lines: its lexemes other than whitespace.
TextOf(q) == SelectSeq(Concat(q), LAMBDA tok : tok # WS)

\* C30: the text of the lines returned is the text of the lines given: no
\* line's text is emitted twice and none is left out.
C30_NormaliserConserves ==
  (adapter = "NORMALISER" /\ norm_pc = "returned") =>
    TextOf(norm_out) = TextOf(norm_in)

---------------------------------------------------------------------------
(***************************************************************************)
(* Claims about council-lookup.                                            *)
(***************************************************************************)
\* The two shapes of a scraper's result.
SuccessShape(r) ==
  /\ DOMAIN r = {"success", "data", "error"}
  /\ r.success = TRUE
  /\ r.data # NoneDict
  /\ r.error = NoneStr

FailureShape(r) ==
  /\ DOMAIN r = {"success", "data", "error"}
  /\ r.success = FALSE
  /\ r.data = NoneDict
  /\ r.error # NoneStr

\* C24: no exception leaves a scraper; what it returns has the success
\* shape or the failure shape; for an empty application id (None or "") no
\* HTTP request is made and the result has the failure shape.
C24_ScraperResultShape ==
  adapter = "SCRAPER" =>
    /\ scr_pc # "raised"
    /\ scr_pc = "returned" =>
         (SuccessShape(scr_result) \/ FailureShape(scr_result))
    /\ Falsy(application_id) =>
         /\ requests = <<>>
         /\ scr_pc \in {"call", "returned"}
         /\ scr_pc = "returned" => FailureShape(scr_result)

\* The Redlands scraper got a reply whose "data" array holds an entry that
\* is not an object; the exception raised in the loop over rows came back
\* as the failure record, after both requests.
C24_Witness ==
  /\ adapter = "SCRAPER"
  /\ scr_council = "REDLANDS"
  /\ scr_pc = "returned"
  /\ requests = <<"GET GetAllDocument", "POST GetResult">>
  /\ scr_result = ScrFailure("'str' object has no attribute 'get'")

\* The scraper was called and returned a success record.
ScraperSucceeded ==
  /\ look_calls # <<>>
  /\ ~look_calls[1].raised
  /\ look_result # NoneDict
  /\ look_result.success

\* The session write was attempted.
WriteAttempted ==
  \E k \in 1..Len(look_calls) : look_calls[k].call = "dynamodb.update_item"

\* C29: after a success of the scraper the handler ends with the 200
\* response that holds the project metadata, whatever the session write
\* did; the write is attempted only after such a success and only for a
\* session id that is not empty; after a scraper that raised or returned
\* anything else the handler has returned SCRAPER_EXCEPTION or SCRAPE_FAILED
\* and made no write.
C29_LookupWriteSwallowed ==
  adapter = "LOOKUP" =>
    /\ ScraperSucceeded =>
         /\ look_pc \in {"write", "respond", "returned"}
         /\ look_pc = "returned" =>
              /\ look_response.statusCode = 200
              /\ look_response.body.ok
              /\ look_response.body.daNumber = look_event.body.value.daNumber
              /\ look_response.body.projectMetadata.raw =
                   (IF look_result.data = NoneDict THEN [type |-> "dict"]
                    ELSE look_result.data)
              /\ look_response.body.projectMetadata.applicationId =
                   look_event.body.value.daNumber
    /\ WriteAttempted =>
         /\ ScraperSucceeded
         /\ look_event.body.value.sessionId \notin {Absent, "", "   "}
         /\ Cardinality({k \in 1..Len(look_calls) :
                           look_calls[k].call = "dynamodb.update_item"}) = 1
    /\ (look_calls # <<>> /\ ~ScraperSucceeded) =>
         /\ look_pc = "returned"
         /\ Len(look_calls) = 1
         /\ look_response.statusCode \in {500, 502}
         /\ look_response.body.ok = FALSE
         /\ look_response.body.error =
              (IF look_calls[1].raised THEN "SCRAPER_EXCEPTION"
               ELSE "SCRAPE_FAILED")

\* The scraper succeeded, the session write raised, and the handler has
\* returned ok:true with the project metadata.
C29_Witness ==
  /\ adapter = "LOOKUP"
  /\ look_pc = "returned"
  /\ Len(look_calls) = 2
  /\ look_calls[2] = [call |-> "dynamodb.update_item", raised |-> TRUE]
  /\ look_response.statusCode = 200
  /\ look_response.body.ok
  /\ look_response.body.projectMetadata.raw =
       DeviData("A006738808", <<"Plans">>)

====
